---- MODULE Spec2Model ----
(***************************************************************************)
(* Model of valida-rs: the cross-environment test harness of               *)
(* src/src/test_utils.rs (host runner, guest-runner supervision, guest     *)
(* dispatcher) and the tape helpers of src/src/io.rs.                      *)
(*                                                                         *)
(* Byte strings are sequences of one-character strings.  Fixed texts of    *)
(* the program are shortened to one symbol each ("A" for the text          *)
(* "Available tests:...", "R" for "Running test: ", "V" for                *)
(* " in valida vm"); the newline byte is kept as such.  The Sentinel       *)
(* keeps the shape of MAGIC_TERMINATOR: newlines, a body, newlines, so     *)
(* that two occurrences can overlap in their newline border.               *)
(***************************************************************************)
EXTENDS Integers, Sequences, FiniteSets, TLC

VARIABLES
    \* ---- supervisor (run_test_on_valida / run_test_on_valida_inner) ----
    test,            \* the descriptor under test: [name, should_panic]
    test_paths,      \* the candidate artifacts, in list order
    host_test_time,  \* duration of the host run, in seconds
    pc,              \* position of the supervising thread
    idx,             \* index in test_paths of the candidate being tried
    child,           \* candidate -> "unspawned" | "alive" | "exited_ok" | "exited_fail" | "killed"
    childPlan,       \* bytes the current child still has to write before its free output
    tailBudget,      \* free output bytes a child may write after the handshake line
                     \* (none when several candidates are tried, to keep the model small)
    tailLeft,        \* free output bytes the current child may still write
    endless,         \* the children write without end: tailLeft is refilled as time passes
    childOut,        \* every byte the current child wrote to its stdout so far
    readPos,         \* number of bytes of childOut the reader thread has read
    reader,          \* candidate -> "none" | "running" | "done" (the thread of non_blocking_read)
    chan,            \* the mpsc channel: segments sent and not yet received
    stdout_buffer,   \* Vec<u8> stdout_buffer
    lines_seen,      \* check_test_started: lines_seen
    searched_cursor, \* run_test_on_valida_inner: searched_cursor
    elapsed,         \* start_time.elapsed(): seconds since the supervisor last stored Instant::now()
    timeout,         \* run_test_on_valida_inner: timeout
    sinceMatch,      \* seconds that really passed since check_test_started returned true
    innerRet,        \* candidate -> what run_test_on_valida_inner returned for it
    exitPath,        \* candidate -> the return statement its supervising call left through
    spawned,         \* the candidates spawned so far, in spawn order
    result,          \* what run_test_on_valida returned ("none" while it runs)
    \* ---- host execution (run_test_on_host) ----
    h_test,          \* the descriptor run on the host: [should_panic, testfn]
    h_term,          \* how the test function ends: [kind, payload, msg]
    h_duration,      \* start_time.elapsed() after the test function, in seconds
    h_outcome,       \* the TestOutcome returned (tag "none" before the call)
    \* ---- guest dispatcher (run_single_test_in_valida) ----
    g_tests,         \* the registry compiled into the guest: [name, source_file, testfn]
    g_tape,          \* the input tape (what getchar yields, then EOF)
    g_pos,           \* number of bytes of g_tape consumed
    g_out,           \* the output tape (what putchar wrote)
    g_pc,            \* position of the dispatcher
    g_name,          \* test_name, as read_line returned it
    g_file,          \* test_file, as read_line returned it
    g_found,         \* index in g_tests of the descriptor find returned (0: None)
    g_hook,          \* index of the descriptor the panic hook was set for (0: the default hook)
    g_invoked,       \* the descriptors whose test function was called, in call order
    g_budget,        \* bytes the running test function may still write
    \* ---- value framing (io::write, io::read_and_deserialize) ----
    c_value,         \* the value written: [ty, val]
    c_out,           \* the output tape of the writer
    c_in,            \* the input tape of the reader
    c_result,        \* what read_and_deserialize returned: [ok, val]
    c_pc,            \* position of the round trip
    \* ---- the run of all tests (host_runner) ----
    r_env,           \* the VALIDA_TEST setting: [kind, val]
    r_buildOk,       \* whether the guest build succeeds, if it is run
    r_tests,         \* the registry: [name, ignore, host, guest]
    r_filter,        \* the filter argument: [given, text]
    r_pc,            \* position of host_runner
    run_tests_on_valida,  \* host_runner: run_tests_on_valida
    filtered_tests,  \* host_runner: filtered_tests, as indices of r_tests
    r_i,             \* index in filtered_tests of the test of the current iteration
    passed,          \* host_runner: the counters
    valida_passed,
    ignored,
    failed,
    valida_failed,
    unsupported,
    r_builds,        \* number of guest builds run
    r_hostRuns,      \* the tests run on the host, in order (indices of r_tests)
    r_guestRuns,     \* the tests sent to the guest, in order
    r_exit,          \* the code passed to process::exit ("none" before)
    \* ---- the Sentinel search of the poll loop, with its comparisons recorded ----
    s_buffer,        \* stdout_buffer
    s_cursor,        \* searched_cursor
    s_compared,      \* start index -> number of times the slice at it was compared
    s_overrun,       \* a comparison took a slice that ends past the end of the buffer
    s_pc             \* "poll" while the loop runs, "returned" after the Sentinel was found

supVars == <<test, test_paths, host_test_time, tailBudget, endless, pc, idx, child, childPlan,
             tailLeft, childOut, readPos, reader, chan, stdout_buffer, lines_seen,
             searched_cursor, elapsed, timeout, sinceMatch, innerRet,
             exitPath, spawned, result>>

hostVars == <<h_test, h_term, h_duration, h_outcome>>

guestVars == <<g_tests, g_tape, g_pos, g_out, g_pc, g_name, g_file, g_found, g_hook,
               g_invoked, g_budget>>

\* Groups of variables, for the frame conditions.  cfgVars: what no step of
\* the supervisor, of the child or of the reader thread changes.
codecVars == <<c_value, c_out, c_in, c_result, c_pc>>

runnerVars == <<r_env, r_buildOk, r_tests, r_filter, r_pc, run_tests_on_valida,
                filtered_tests, r_i, passed, valida_passed, ignored, failed,
                valida_failed, unsupported, r_builds, r_hostRuns, r_guestRuns, r_exit>>

searchVars == <<s_buffer, s_cursor, s_compared, s_overrun, s_pc>>

\* What the steps of one part leave alone: the variables of the other parts.
notGuest == <<supVars, hostVars, codecVars, runnerVars, searchVars>>
notHost == <<supVars, guestVars, codecVars, runnerVars, searchVars>>
notCodec == <<supVars, hostVars, guestVars, runnerVars, searchVars>>
notRunner == <<supVars, hostVars, guestVars, codecVars, searchVars>>
notSearch == <<supVars, hostVars, guestVars, codecVars, runnerVars>>

cfgVars == <<test, test_paths, host_test_time, tailBudget, endless, hostVars, guestVars, codecVars,
             runnerVars, searchVars>>
pipeVars == <<childPlan, tailLeft, childOut, readPos>>
localVars == <<stdout_buffer, lines_seen, searched_cursor, elapsed, timeout>>
retVars == <<innerRet, exitPath, result>>

vars == <<supVars, hostVars, guestVars, codecVars, runnerVars, searchVars>>

----------------------------------------------------------------------------
\* Bounds of the model.
MaxCandidates == 2
MaxTail == 4
TickStep == 10
MaxMsgLen == 2

\* Program constants.
NL == "\n"
CR == "\r"
SEGMENT_SIZE == 256
HANDSHAKE_SECS == 5
TIMEOUT_FACTOR == 20
TIMEOUT_FLOOR_SECS == 10

MAGIC_TERMINATOR == <<NL, "T", NL>>

\* Durations of the host run, in seconds: one for which the floor of the
\* timeout decides and one for which the factor does.
HostTimes == {0, 1}

\* How far the child's output gets ahead of the supervisor's buffer: enough
\* for a whole terminator and the byte after it to arrive between two polls.
MaxInFlight == Len(MAGIC_TERMINATOR) + 1

----------------------------------------------------------------------------
\* Helpers on byte strings.
Max(a, b) == IF a >= b THEN a ELSE b
Min(a, b) == IF a <= b THEN a ELSE b

Drop(s, n) == SubSeq(s, n + 1, Len(s))
Take(s, n) == SubSeq(s, 1, n)

RECURSIVE Flatten(_)
Flatten(ss) == IF ss = <<>> THEN <<>> ELSE Head(ss) \o Flatten(Tail(ss))

CountByte(s, b) == Cardinality({i \in 1..Len(s) : s[i] = b})

\* s[i..i+Len(m)) == m, with i a 0-based start index as in the Rust slices.
MatchAt(s, i, m) == /\ i + Len(m) <= Len(s)
                    /\ SubSeq(s, i + 1, i + Len(m)) = m

\* str::contains
Contains(s, m) == \E i \in 0..Len(s) : MatchAt(s, i, m)

\* str::lines: split at "\n", drop one "\r" before it, no empty last line.
StripCR(l) == IF l # <<>> /\ l[Len(l)] = CR THEN Take(l, Len(l) - 1) ELSE l

RECURSIVE SplitNL(_, _)
SplitNL(s, cur) ==
    IF s = <<>> THEN (IF cur = <<>> THEN <<>> ELSE <<cur>>)
    ELSE IF Head(s) = NL THEN <<StripCR(cur)>> \o SplitNL(Tail(s), <<>>)
    ELSE SplitNL(Tail(s), Append(cur, Head(s)))

Lines(s) == SplitNL(s, <<>>)

----------------------------------------------------------------------------
\* The test descriptor (test::TestDesc) and ShouldPanic.
SP_No == [kind |-> "No", msg |-> <<>>]
SP_Yes == [kind |-> "Yes", msg |-> <<>>]
SP_YesWithMessage(m) == [kind |-> "YesWithMessage", msg |-> m]

\* Return values of run_test_on_valida_inner and run_test_on_valida.
OkTrue == "Ok(true)"
OkFalse == "Ok(false)"
OkUnit == "Ok(())"
ErrPanicked == "Err(Test panicked unexpectedly)"
ErrWaitFailed == "Err(Failed to wait for cargo process)"
ErrDidNotPanic == "Err(Test did not panic as expected)"
ErrExitCode == "Err(Test failed with exit code)"
ErrTimedOut == "Err(Test timed out)"
ErrNoBinaries == "Err(No test binaries found for valida)"
ErrNotFound == "Err(Test not found in any test binary)"

InnerErrors == {ErrPanicked, ErrWaitFailed, ErrDidNotPanic, ErrExitCode, ErrTimedOut}

\* format!("Running test: {} in valida vm", test.desc.name)
valida_test_second_line_stdout(t) == <<"R">> \o t.name \o <<"V">>

\* What the guest runner prints before the output of the test itself:
\* the availability line, then the handshake line or another line.
AvailabilityLine == <<"A", NL>>
PlanMatch(t) == AvailabilityLine \o valida_test_second_line_stdout(t) \o <<NL>>
PlanOther == AvailabilityLine \o <<"W", NL>>
TailBytes == {NL, "T"}
\* What a child that writes without end writes.
EndlessBytes == {"x"}

----------------------------------------------------------------------------
\* run_test_on_valida_inner: the pieces of the poll loop.

\* A variant with the factor 10.
TimeoutOf_Factor10(h) == Max(h * 10, TIMEOUT_FLOOR_SECS)

\* let timeout = max(host_test_time * 20, Duration::from_secs(10))
TimeoutOf(h) == Max(h * TIMEOUT_FACTOR, TIMEOUT_FLOOR_SECS)

\* A variant that searches up to the end of the buffer.
SearchEnd_ToLength(len, cursor) == len

\* stdout_buffer.len().checked_sub(MAGIC_TERMINATOR.len()).unwrap_or(searched_cursor)
SearchEnd(len, cursor) ==
    IF len >= Len(MAGIC_TERMINATOR) THEN len - Len(MAGIC_TERMINATOR) ELSE cursor

\* (searched_cursor..search_end).any(|i| &buf[i..i + M] == MAGIC_TERMINATOR)
PanicedWithMagicTerminator(buf, cursor, search_end) ==
    \E i \in cursor..(search_end - 1) : MatchAt(buf, i, MAGIC_TERMINATOR)

\* A variant that takes the panic of a YesWithMessage test, whose message
\* cannot be compared, for a failure.
SentinelOutcome_MessageUnchecked(sp) == IF sp.kind = "Yes" THEN OkTrue ELSE ErrPanicked

\* if paniced_with_magic_terminator { ... }
SentinelOutcome(sp) == IF sp.kind = "No" THEN ErrPanicked ELSE OkTrue

\* A variant that ignores should_panic.
ExitOutcome_StatusOnly(success, sp) == IF success THEN OkTrue ELSE ErrExitCode

\* A variant for which a failure status is a failure of every test.
ExitOutcome_FailureFails(success, sp) ==
    IF success
    THEN (IF sp.kind = "No" THEN OkTrue ELSE ErrDidNotPanic)
    ELSE ErrExitCode

\* match (status, &test.desc.should_panic) { ... }
ExitOutcome(success, sp) ==
    IF success
    THEN (IF sp.kind = "No" THEN OkTrue ELSE ErrDidNotPanic)
    ELSE (IF sp.kind = "No" THEN ErrExitCode ELSE OkTrue)

\* if start_time.elapsed() >= timeout { match &test.desc.should_panic { ... } }
\* The elapsed time is never found to have reached the timeout.
TimedOut_Never(el, limit) == FALSE

\* if start_time.elapsed() >= timeout
TimedOut(el, limit) == el >= limit
TimeoutOutcome(sp) == IF sp.kind = "No" THEN ErrTimedOut ELSE OkTrue

\* A variant that does not kill.
ScopedChildDrop_NoKill(st) == st

\* impl Drop for ScopedChild: let _ = self.0.kill();
ScopedChildDrop(st) == IF st = "alive" THEN "killed" ELSE st

\* check_test_started: the final match on the first two lines of the buffer.
TestStarted(buf, t) ==
    /\ Len(Lines(buf)) >= 2
    /\ Lines(buf)[2] = valida_test_second_line_stdout(t)

\* check_test_started: while lines_seen < 2 && start_time.elapsed() < 5 s
HandshakeWaiting(seen, el) == seen < 2 /\ el < HANDSHAKE_SECS

\* A variant that goes on with the next candidate after an error too.
CandidateLoop_SkipErrors(ret, i, n) ==
    IF ret = OkTrue THEN <<"done", i, OkUnit>>
    ELSE IF i < n THEN <<"spawn", i + 1, "none">>
    ELSE <<"done", i, ErrNotFound>>

\* A variant that ends with Ok when the list is exhausted.
CandidateLoop_ExhaustedOk(ret, i, n) ==
    IF ret = OkFalse
    THEN (IF i < n THEN <<"spawn", i + 1, "none">> ELSE <<"done", i, OkUnit>>)
    ELSE IF ret = OkTrue THEN <<"done", i, OkUnit>>
    ELSE <<"done", i, ret>>

\* run_test_on_valida: what the loop over test_paths does with the value
\* run_test_on_valida_inner returned for candidate i of n:
\* <<next pc, next idx, result>>.
CandidateLoop(ret, i, n) ==
    IF ret = OkFalse
    THEN (IF i < n THEN <<"spawn", i + 1, "none">> ELSE <<"done", i, ErrNotFound>>)
    ELSE IF ret = OkTrue THEN <<"done", i, OkUnit>>
    ELSE <<"done", i, ret>>

\* A return of run_test_on_valida_inner: its locals go away (the ScopedChild
\* kills the child, whose pipe closes; the Receiver, the buffer, the cursor
\* and the timer are dropped) and the loop of run_test_on_valida goes on.
InnerReturn(ret, path) ==
    /\ child' = [child EXCEPT ![idx] = ScopedChildDrop(@)]
    /\ chan' = <<>>
    /\ stdout_buffer' = <<>>
    /\ lines_seen' = 0
    /\ searched_cursor' = 0
    /\ elapsed' = 0
    /\ timeout' = 0
    /\ childPlan' = <<>>
    /\ tailLeft' = 0
    /\ childOut' = <<>>
    /\ readPos' = 0
    /\ innerRet' = [innerRet EXCEPT ![idx] = ret]
    /\ exitPath' = [exitPath EXCEPT ![idx] = path]
    /\ pc' = CandidateLoop(ret, idx, Len(test_paths))[1]
    /\ idx' = CandidateLoop(ret, idx, Len(test_paths))[2]
    /\ result' = CandidateLoop(ret, idx, Len(test_paths))[3]
    /\ UNCHANGED <<cfgVars, reader, spawned, sinceMatch>>

InCall == pc \in {"handshake", "poll_recv", "poll_wait"}

----------------------------------------------------------------------------
\* Initial states: run_test_on_valida is called for one test.
Candidates == 1..MaxCandidates

\* The host execution before any call.
SearchIdle ==
    /\ s_buffer = <<>>
    /\ s_cursor = 0
    /\ s_compared = <<>>
    /\ s_overrun = FALSE
    /\ s_pc = "idle"

HostIdle ==
    /\ h_test = [should_panic |-> SP_No, testfn |-> "StaticTestFn"]
    /\ h_term = [kind |-> "ok", payload |-> "none", msg |-> <<>>]
    /\ h_duration = 0
    /\ h_outcome = [tag |-> "none", info |-> "none"]

\* The guest dispatcher before it is started.
GuestIdle ==
    /\ g_tests = <<>>
    /\ g_tape = <<>>
    /\ g_pos = 0
    /\ g_out = <<>>
    /\ g_pc = "idle"
    /\ g_name = <<>>
    /\ g_file = <<>>
    /\ g_found = 0
    /\ g_hook = 0
    /\ g_invoked = <<>>
    /\ g_budget = 0

\* The value framing before any round trip.
CodecIdle ==
    /\ c_value = [ty |-> "unit", val |-> 0]
    /\ c_out = <<>>
    /\ c_in = <<>>
    /\ c_result = [ok |-> FALSE, val |-> 0]
    /\ c_pc = "idle"

\* host_runner before it is called.
RunnerIdle ==
    /\ r_env = [kind |-> "unset", val |-> <<>>]
    /\ r_buildOk = TRUE
    /\ r_tests = <<>>
    /\ r_filter = [given |-> FALSE, text |-> <<>>]
    /\ r_pc = "idle"
    /\ run_tests_on_valida = FALSE
    /\ filtered_tests = <<>>
    /\ r_i = 0
    /\ passed = 0
    /\ valida_passed = 0
    /\ ignored = 0
    /\ failed = 0
    /\ valida_failed = 0
    /\ unsupported = 0
    /\ r_builds = 0
    /\ r_hostRuns = <<>>
    /\ r_guestRuns = <<>>
    /\ r_exit = "none"

Init ==
    /\ HostIdle
    /\ GuestIdle
    /\ CodecIdle
    /\ RunnerIdle
    /\ SearchIdle
    /\ test \in {[name |-> <<"t">>, should_panic |-> sp] :
                    sp \in {SP_No, SP_Yes, SP_YesWithMessage(<<"a">>)}}
    /\ test_paths \in {[i \in 1..n |-> i] : n \in 0..MaxCandidates}
    /\ host_test_time \in HostTimes
    /\ tailBudget = IF Len(test_paths) <= 1 THEN MaxTail ELSE 0
    /\ endless = FALSE
    /\ pc = "call"
    /\ idx = 0
    /\ child = [i \in Candidates |-> "unspawned"]
    /\ childPlan = <<>>
    /\ tailLeft = 0
    /\ childOut = <<>>
    /\ readPos = 0
    /\ reader = [i \in Candidates |-> "none"]
    /\ chan = <<>>
    /\ stdout_buffer = <<>>
    /\ lines_seen = 0
    /\ searched_cursor = 0
    /\ elapsed = 0
    /\ timeout = 0
    /\ sinceMatch = 0
    /\ innerRet = [i \in Candidates |-> "none"]
    /\ exitPath = [i \in Candidates |-> "none"]
    /\ spawned = <<>>
    /\ result = "none"

\* run_test_on_valida: if test_paths.is_empty() { return Err(...) }
RunTestOnValida ==
    /\ pc = "call"
    /\ IF test_paths = <<>>
       THEN pc' = "done" /\ result' = ErrNoBinaries /\ idx' = idx
       ELSE pc' = "spawn" /\ result' = result /\ idx' = 1
    /\ UNCHANGED <<cfgVars, pipeVars, localVars, child, reader, chan, innerRet,
                   exitPath, spawned, sinceMatch>>

\* run_test_on_valida_inner up to the call of check_test_started: spawn the
\* guest runner on test_paths[idx], start the reader thread, empty buffer,
\* start_time = Instant::now().
SpawnChild ==
    /\ pc = "spawn"
    /\ child' = [child EXCEPT ![idx] = "alive"]
    /\ spawned' = Append(spawned, idx)
    /\ \E plan \in {PlanMatch(test), PlanOther} :
          /\ childPlan' = plan
          /\ tailLeft' = IF plan = PlanMatch(test) \/ endless THEN tailBudget ELSE 0
    /\ childOut' = <<>>
    /\ readPos' = 0
    /\ reader' = [reader EXCEPT ![idx] = "running"]
    /\ chan' = <<>>
    /\ stdout_buffer' = <<>>
    /\ lines_seen' = 0
    /\ elapsed' = 0
    /\ sinceMatch' = 0
    /\ pc' = "handshake"
    /\ UNCHANGED <<cfgVars, idx, searched_cursor, timeout, retVars>>

----------------------------------------------------------------------------
\* The guest-runner process (the environment of the supervisor).

\* The child writes one more byte to its stdout pipe.  It gets at most
\* MaxInFlight bytes ahead of what the supervisor has taken into its buffer.
ChildWrite ==
    /\ InCall
    /\ child[idx] = "alive"
    /\ Len(childOut) - Len(stdout_buffer) < MaxInFlight
    /\ \/ /\ childPlan # <<>>
          /\ childOut' = Append(childOut, Head(childPlan))
          /\ childPlan' = Tail(childPlan)
          /\ tailLeft' = tailLeft
       \/ /\ childPlan = <<>>
          /\ tailLeft > 0
          /\ \E b \in (IF endless THEN EndlessBytes ELSE TailBytes) :
                childOut' = Append(childOut, b)
          /\ tailLeft' = tailLeft - 1
          /\ childPlan' = childPlan
    /\ UNCHANGED <<cfgVars, localVars, retVars, pc, idx, child, readPos, reader,
                   chan, spawned,
                   sinceMatch>>

\* The child exits by itself, with a success or a failure status.
ChildExit ==
    /\ InCall
    /\ child[idx] = "alive"
    /\ \E st \in {"exited_ok", "exited_fail"} : child' = [child EXCEPT ![idx] = st]
    /\ UNCHANGED <<cfgVars, pipeVars, localVars, retVars, pc, idx, reader, chan,
                   spawned,
                   sinceMatch>>

\* Time passes (Instant::now() grows; thread::sleep in check_test_started).
\* The clock stops once the deadline of the current phase has passed: no
\* decision of the supervisor depends on how far it has passed.
Tick ==
    /\ \/ pc = "handshake" /\ elapsed < HANDSHAKE_SECS
       \/ pc \in {"poll_recv", "poll_wait"} /\ elapsed < timeout
    /\ elapsed' = elapsed + TickStep
    /\ sinceMatch' = IF pc = "handshake" THEN sinceMatch ELSE sinceMatch + TickStep
    /\ tailLeft' = IF endless THEN tailBudget ELSE tailLeft
    /\ UNCHANGED <<cfgVars, childPlan, childOut, readPos, retVars, pc, idx, child, reader,
                   chan, stdout_buffer, lines_seen, searched_cursor, timeout, spawned>>

----------------------------------------------------------------------------
\* The thread of non_blocking_read, while its Receiver is alive.

\* Ok(n): the read returned the bytes the pipe holds, at most a segment of
\* them, which are sent as one segment.
ReaderRead ==
    /\ InCall
    /\ reader[idx] = "running"
    /\ readPos < Len(childOut)
    /\ LET n == Min(SEGMENT_SIZE, Len(childOut) - readPos)
       IN /\ chan' = Append(chan, SubSeq(childOut, readPos + 1, readPos + n))
          /\ readPos' = readPos + n
    /\ UNCHANGED <<cfgVars, localVars, retVars, pc, idx, child, childPlan,
                   tailLeft, childOut, reader, spawned,
                   sinceMatch>>

\* Ok(0): end of stream, the write end of the pipe is closed and all is read.
ReaderEof ==
    /\ InCall
    /\ reader[idx] = "running"
    /\ readPos = Len(childOut)
    /\ child[idx] # "alive"
    /\ reader' = [reader EXCEPT ![idx] = "done"]
    /\ UNCHANGED <<cfgVars, pipeVars, localVars, retVars, pc, idx, child, chan,
                   spawned,
                   sinceMatch>>

\* Err(_): the read failed.
ReaderErr ==
    /\ InCall
    /\ reader[idx] = "running"
    /\ reader' = [reader EXCEPT ![idx] = "done"]
    /\ UNCHANGED <<cfgVars, pipeVars, localVars, retVars, pc, idx, child, chan,
                   spawned,
                   sinceMatch>>

\* The thread of a call that has returned: its Receiver is dropped, so its
\* next read ends it (Ok(0), a failed send, or Err).
OrphanReaderStop ==
    /\ \E j \in Candidates :
          /\ reader[j] = "running"
          /\ j < idx \/ pc = "done"
          /\ child[j] # "alive"
          /\ reader' = [reader EXCEPT ![j] = "done"]
    /\ UNCHANGED <<cfgVars, pipeVars, localVars, retVars, pc, idx, child, chan,
                   spawned,
                   sinceMatch>>

----------------------------------------------------------------------------
\* check_test_started.

\* Ok(data): count the newlines of the segment and append it.
CheckStartedRecv ==
    /\ pc = "handshake"
    /\ HandshakeWaiting(lines_seen, elapsed)
    /\ chan # <<>>
    /\ lines_seen' = lines_seen + CountByte(Head(chan), NL)
    /\ stdout_buffer' = stdout_buffer \o Head(chan)
    /\ chan' = Tail(chan)
    /\ UNCHANGED <<cfgVars, pipeVars, retVars, pc, idx, child, reader,
                   searched_cursor, elapsed, timeout, spawned,
                   sinceMatch>>

\* The loop ends (two lines seen, 5 s elapsed, or Disconnected) and the second
\* line is compared.  On a match the poll loop is set up (timeout,
\* start_time = Instant::now(), searched_cursor = 0); otherwise
\* run_test_on_valida_inner returns Ok(false).
CheckStartedEnd ==
    /\ pc = "handshake"
    /\ \/ ~HandshakeWaiting(lines_seen, elapsed)
       \/ chan = <<>> /\ reader[idx] = "done"
    /\ IF TestStarted(stdout_buffer, test)
       THEN /\ timeout' = TimeoutOf(host_test_time)
            /\ elapsed' = 0
            /\ sinceMatch' = 0
            /\ searched_cursor' = 0
            /\ pc' = "poll_recv"
            /\ UNCHANGED <<cfgVars, pipeVars, retVars, idx, child, reader, chan,
                           stdout_buffer, lines_seen, spawned>>
       ELSE InnerReturn(OkFalse, "mismatch")

----------------------------------------------------------------------------
\* The poll loop of run_test_on_valida_inner.

\* A variant that keeps only the segment received last.
ReceiveChildStdout_LastOnly(buf, ch) ==
    IF ch = <<>> THEN buf ELSE buf \o ch[Len(ch)]

\* receive_child_stdout: while let Ok(segment) = try_recv() { extend }
ReceiveChildStdout(buf, ch) == buf \o Flatten(ch)

\* The first half of an iteration: receive_child_stdout, the search from
\* searched_cursor, and the return when the search found the terminator.
PollReceiveSearch ==
    /\ pc = "poll_recv"
    /\ LET buf == ReceiveChildStdout(stdout_buffer, chan)
           search_end == SearchEnd(Len(buf), searched_cursor)
       IN IF PanicedWithMagicTerminator(buf, searched_cursor, search_end)
          THEN InnerReturn(SentinelOutcome(test.should_panic), "sentinel")
          ELSE /\ stdout_buffer' = buf
               /\ searched_cursor' = search_end
               /\ chan' = <<>>
               /\ pc' = "poll_wait"
               /\ UNCHANGED <<cfgVars, pipeVars, retVars, idx, child, reader,
                              lines_seen, elapsed, timeout, spawned,
                   sinceMatch>>

\* child.try_wait() fails: receive once more and return the error.
PollTryWaitErr ==
    /\ pc = "poll_wait"
    /\ InnerReturn(ErrWaitFailed, "wait_err")

\* The second half of an iteration.  child.try_wait() succeeds: with
\* Some(status) when the child has exited (receive once more and return by
\* the status); with None while it runs, and then the elapsed time is
\* compared with the timeout.
PollTryWait ==
    /\ pc = "poll_wait"
    /\ IF child[idx] # "alive"
       THEN InnerReturn(ExitOutcome(child[idx] = "exited_ok", test.should_panic),
                        "exited")
       ELSE IF TimedOut(elapsed, timeout)
       THEN InnerReturn(TimeoutOutcome(test.should_panic), "timeout")
       ELSE /\ pc' = "poll_recv"
            /\ UNCHANGED <<cfgVars, pipeVars, localVars, retVars, idx, child,
                           reader, chan, spawned,
                   sinceMatch>>

----------------------------------------------------------------------------
Next ==
    \/ RunTestOnValida
    \/ SpawnChild
    \/ ChildWrite
    \/ ChildExit
    \/ Tick
    \/ ReaderRead
    \/ ReaderEof
    \/ ReaderErr
    \/ OrphanReaderStop
    \/ CheckStartedRecv
    \/ CheckStartedEnd
    \/ PollReceiveSearch
    \/ PollTryWaitErr
    \/ PollTryWait

Spec == Init /\ [][Next]_vars

----------------------------------------------------------------------------
\* Properties of the supervisor (specification Spec).

\* The result run_test_on_valida gives for a value of run_test_on_valida_inner
\* other than Ok(false).
Propagated(ret) == IF ret = OkTrue THEN OkUnit ELSE ret

IsFailure(ret) == ret \in InnerErrors
IsPass(ret) == ret = OkTrue

\* A complete terminator lies in buf at a start index the search of this
\* iteration compares: not below the cursor, and strictly before the last
\* position at which a terminator fits.
SearchFinds(buf, cursor) ==
    \E i \in 0..Len(buf) :
        /\ i >= cursor
        /\ i + Len(MAGIC_TERMINATOR) < Len(buf)
        /\ \A k \in 1..Len(MAGIC_TERMINATOR) : buf[i + k] = MAGIC_TERMINATOR[k]

\* C2: after the handshake matched, a poll iteration whose search finds the
\* Sentinel returns the verdict for "aborted abnormally" (a failure for
\* should_panic = No, a pass for Yes and YesWithMessage, the expected message
\* not being compared), whether or not the child has exited and whatever its
\* exit status: the search comes before the exit check.
C2_SentinelStep ==
    (pc = "poll_recv" /\ pc' # "poll_recv"
        /\ SearchFinds(stdout_buffer \o Flatten(chan), searched_cursor))
    => /\ exitPath'[idx] = "sentinel"
       /\ pc' = "done"
       /\ IF test.should_panic.kind = "No"
          THEN IsFailure(innerRet'[idx]) /\ result' = innerRet'[idx]
          ELSE IsPass(innerRet'[idx]) /\ result' = OkUnit

C2_SentinelVerdict ==
    /\ [][C2_SentinelStep]_vars
    /\ [](\A i \in Candidates :
            exitPath[i] = "sentinel" =>
                IF test.should_panic.kind = "No"
                THEN innerRet[i] = ErrPanicked
                ELSE innerRet[i] = OkTrue)

\* C2 witness: a Sentinel verdict (a failure, should_panic = No) returned for
\* a child that had already exited with a success status.
C2_Witness ==
    /\ pc = "done"
    /\ exitPath[1] = "sentinel"
    /\ child[1] = "exited_ok"
    /\ test.should_panic.kind = "No"
    /\ result = ErrPanicked

\* C3: when the matched guest process exits with a success status and no
\* Sentinel was detected, the verdict is that of "completed normally": a pass
\* for should_panic = No, the failure "did not panic as expected" for Yes and
\* YesWithMessage.
C3_ExitSuccess ==
    \A i \in Candidates :
        (exitPath[i] = "exited" /\ child[i] = "exited_ok") =>
            /\ innerRet[i] = IF test.should_panic.kind = "No"
                             THEN OkTrue ELSE ErrDidNotPanic
            /\ result = Propagated(innerRet[i])

C3_Witness ==
    /\ exitPath[1] = "exited"
    /\ child[1] = "exited_ok"
    /\ test.should_panic.kind = "YesWithMessage"
    /\ result = ErrDidNotPanic

C5_TimeoutStep ==
    (pc = "poll_wait" /\ pc' # "poll_wait" /\ child[idx] = "alive"
        /\ exitPath'[idx] # "wait_err")
    => IF sinceMatch >= Max(20 * host_test_time, 10)
       THEN /\ exitPath'[idx] = "timeout"
            /\ IF test.should_panic.kind = "No"
               THEN innerRet'[idx] = ErrTimedOut /\ result' = ErrTimedOut
               ELSE innerRet'[idx] = OkTrue /\ result' = OkUnit
       ELSE pc' = "poll_recv" /\ exitPath'[idx] = "none"

C5_Timeout ==
    /\ [][C5_TimeoutStep]_vars
    /\ [](\A i \in Candidates :
            exitPath[i] = "timeout" =>
                /\ sinceMatch >= Max(20 * host_test_time, 10)
                /\ innerRet[i] = IF test.should_panic.kind = "No"
                                 THEN ErrTimedOut ELSE OkTrue)

\* C5 witness: host_duration = 1 s, the child still runs 20 s after the
\* handshake, should_panic = No: a failure.
C5_Witness ==
    /\ exitPath[1] = "timeout"
    /\ host_test_time = 1
    /\ sinceMatch = 20
    /\ child[1] = "killed"
    /\ result = ErrTimedOut

\* C6 as stated: the search reports the Sentinel in the first poll iteration
\* that runs after all of its bytes have been appended to the buffer (also
\* when it is the last bytes of the output): once the first half of an
\* iteration has ended without a report, the buffer holds no complete
\* Sentinel.
C6_Original ==
    pc = "poll_wait" => ~Contains(stdout_buffer, MAGIC_TERMINATOR)

\* C7: after run_test_on_valida_inner has returned, on every exit path, the
\* child it spawned is not alive.
C7_NoChildOutlives ==
    \A i \in Candidates :
        /\ innerRet[i] # "none" => child[i] \in {"killed", "exited_ok", "exited_fail"}
        /\ (pc = "done" \/ i < idx) => child[i] # "alive"

C7_Witness ==
    /\ pc = "done"
    /\ exitPath[1] = "timeout"
    /\ child[1] = "killed"


\* The second line of buf, as str::lines cuts it, is the given text: the
\* first newline of buf is followed by the text and then by the end of buf,
\* by a newline or by a carriage return and a newline.
SecondLineIs(buf, line) ==
    \E k \in 1..Len(buf) :
        /\ buf[k] = NL
        /\ \A j \in 1..(k - 1) : buf[j] # NL
        /\ Len(buf) - k >= Len(line)
        /\ \A j \in 1..Len(line) : buf[k + j] = line[j]
        /\ \/ Len(buf) = k + Len(line) /\ line # <<>>
           \/ Len(buf) > k + Len(line) /\ buf[k + Len(line) + 1] = NL
           \/ /\ Len(buf) > k + Len(line) + 1
              /\ buf[k + Len(line) + 1] = CR
              /\ buf[k + Len(line) + 2] = NL

\* C8 (steps): the handshake of a candidate ends in a match exactly when the
\* second line of its output is "Running test: <name> in valida vm"; otherwise
\* the candidate is rejected with Ok(false) and its child is not alive any
\* more.  A candidate is spawned only when no earlier child is alive, and it
\* is the next of the list.
C8_Step ==
    /\ (pc = "handshake" /\ pc' # "handshake") =>
          IF SecondLineIs(stdout_buffer, <<"R">> \o test.name \o <<"V">>)
          THEN pc' = "poll_recv" /\ innerRet'[idx] = "none"
          ELSE innerRet'[idx] = OkFalse /\ child'[idx] # "alive"
    /\ spawned' # spawned =>
          /\ spawned' = Append(spawned, Len(spawned) + 1)
          /\ \A j \in Candidates : child[j] # "alive"

\* C8: run_test_on_valida tries the candidates strictly in list order; every
\* candidate before the last one spawned was rejected and is not alive; the
\* first candidate whose handshake matches determines the result and no later
\* candidate is spawned.
C8_CandidateOrder ==
    /\ [][C8_Step]_vars
    /\ [](/\ spawned = [k \in 1..Len(spawned) |-> k]
          /\ Len(spawned) <= Len(test_paths)
          /\ \A k \in 1..(Len(spawned) - 1) :
                innerRet[k] = OkFalse /\ child[k] # "alive"
          /\ \A i \in Candidates :
                innerRet[i] \notin {"none", OkFalse} =>
                    /\ pc = "done"
                    /\ Len(spawned) = i
                    /\ result = Propagated(innerRet[i]))

\* C8 witness: two candidates, the first rejected, the second matched; the
\* verdict (here a pass of a should_panic = No test that exited with success)
\* is the second candidate's.
C8_Witness ==
    /\ pc = "done"
    /\ Len(test_paths) = 2
    /\ spawned = <<1, 2>>
    /\ innerRet[1] = OkFalse
    /\ child[1] = "killed"
    /\ exitPath[2] = "exited"
    /\ innerRet[2] = OkTrue
    /\ result = OkUnit

\* C9: when every candidate was rejected, run_test_on_valida ends with the
\* "test not found" error, which no matched candidate can produce, after
\* having spawned each candidate exactly once; with an empty candidate list it
\* ends with an error without spawning any process.  In neither case does it
\* report a pass.
C9_NotFound ==
    /\ ErrNotFound \notin InnerErrors \cup {OkUnit}
    /\ ErrNoBinaries \notin InnerErrors \cup {OkUnit}
    /\ (pc = "done" /\ test_paths = <<>>) =>
          /\ result = ErrNoBinaries
          /\ spawned = <<>>
          /\ \A i \in Candidates : child[i] = "unspawned"
    /\ (/\ pc = "done"
        /\ test_paths # <<>>
        /\ \A i \in 1..Len(test_paths) : innerRet[i] = OkFalse) =>
          /\ result = ErrNotFound
          /\ spawned = [k \in 1..Len(test_paths) |-> k]
    /\ result = ErrNotFound =>
          \A i \in 1..Len(test_paths) : innerRet[i] = OkFalse

C9_Witness ==
    /\ pc = "done"
    /\ Len(test_paths) = 2
    /\ innerRet[1] = OkFalse
    /\ innerRet[2] = OkFalse
    /\ spawned = <<1, 2>>
    /\ result = ErrNotFound


----------------------------------------------------------------------------
\* run_test_on_host.

\* The messages of the model: the byte strings over {"a", "b"} of at most
\* MaxMsgLen bytes.
RECURSIVE StringsUpTo(_)
StringsUpTo(n) ==
    IF n = 0 THEN {<<>>}
    ELSE LET shorter == StringsUpTo(n - 1)
         IN shorter \cup {Append(m, c) : m \in shorter, c \in {"a", "b"}}

Messages == StringsUpTo(MaxMsgLen)

\* TestOutcome; NoOutcome before run_test_on_host has returned.
NoOutcome == [tag |-> "none", info |-> "none"]
Passed(duration) == [tag |-> "Passed", info |-> duration]
Failed(message) == [tag |-> "Failed", info |-> message]
ShouldPanicButPassed == [tag |-> "ShouldPanicButPassed", info |-> "none"]
Unsupported == [tag |-> "Unsupported", info |-> "none"]

\* How the test function ends under catch_unwind: Ok(Ok(())), Ok(Err(_)), or
\* Err(payload) with a String, a &str or another payload.
Terminations ==
    {[kind |-> "ok", payload |-> "none", msg |-> <<>>],
     [kind |-> "err", payload |-> "none", msg |-> <<>>],
     [kind |-> "panic", payload |-> "other", msg |-> <<>>]}
    \cup {[kind |-> "panic", payload |-> ty, msg |-> m] :
             ty \in {"String", "str"}, m \in Messages}

\* e.downcast_ref::<String>().map(..).or_else(|| e.downcast_ref::<&str>().copied()):
\* <<TRUE, message>> for Some(message), <<FALSE, <<>> >> for None.
PanicMsg(term) ==
    IF term.payload \in {"String", "str"} THEN <<TRUE, term.msg>> ELSE <<FALSE, <<>> >>

\* A variant that compares the panic message with the expected one for
\* equality.
PanicMsgMatches_Equal(term, expected) ==
    PanicMsg(term)[1] /\ PanicMsg(term)[2] = expected

\* panic_msg.map(|s| s.contains(msg)).unwrap_or(false)
PanicMsgMatches(term, expected) ==
    PanicMsg(term)[1] /\ Contains(PanicMsg(term)[2], expected)

\* match (result, &test.desc.should_panic) { ... } for a StaticTestFn, and
\* Unsupported for every other TestFn.
run_test_on_host(t, term, duration) ==
    IF t.testfn # "StaticTestFn" THEN Unsupported
    ELSE IF term.kind = "ok" /\ t.should_panic.kind = "No" THEN Passed(duration)
    ELSE IF term.kind = "panic" /\ t.should_panic.kind = "Yes" THEN Passed(duration)
    ELSE IF term.kind = "panic" /\ t.should_panic.kind = "YesWithMessage"
    THEN (IF PanicMsgMatches(term, t.should_panic.msg)
          THEN Passed(duration)
          ELSE Failed("Expected panic message containing"))
    ELSE IF term.kind = "panic" /\ t.should_panic.kind = "No"
    THEN Failed("Test panicked unexpectedly")
    ELSE IF term.kind = "ok" /\ t.should_panic.kind \in {"Yes", "YesWithMessage"}
    THEN ShouldPanicButPassed
    ELSE Failed("Test returned error")

\* The supervisor before any call (the host execution alone is looked at).
SupervisorIdle ==
    /\ test = [name |-> <<"t">>, should_panic |-> SP_No]
    /\ test_paths = <<>>
    /\ host_test_time = 0
    /\ tailBudget = 0
    /\ endless = FALSE
    /\ pc = "idle"
    /\ idx = 0
    /\ child = [i \in Candidates |-> "unspawned"]
    /\ childPlan = <<>>
    /\ tailLeft = 0
    /\ childOut = <<>>
    /\ readPos = 0
    /\ reader = [i \in Candidates |-> "none"]
    /\ chan = <<>>
    /\ stdout_buffer = <<>>
    /\ lines_seen = 0
    /\ searched_cursor = 0
    /\ elapsed = 0
    /\ timeout = 0
    /\ sinceMatch = 0
    /\ innerRet = [i \in Candidates |-> "none"]
    /\ exitPath = [i \in Candidates |-> "none"]
    /\ spawned = <<>>
    /\ result = "none"

\* Initial states of the host execution: any descriptor, any end of the test
\* function, any duration.
InitHost ==
    /\ SupervisorIdle
    /\ GuestIdle
    /\ CodecIdle
    /\ RunnerIdle
    /\ SearchIdle
    /\ h_test \in {[should_panic |-> sp, testfn |-> fn] :
                      sp \in {SP_No, SP_Yes} \cup {SP_YesWithMessage(m) : m \in Messages},
                      fn \in {"StaticTestFn", "DynTestFn"}}
    /\ h_term \in Terminations
    /\ h_duration \in HostTimes
    /\ h_outcome = NoOutcome

\* let r = run_test_on_host(t);
RunTestOnHost ==
    /\ h_outcome = NoOutcome
    /\ h_outcome' = run_test_on_host(h_test, h_term, h_duration)
    /\ UNCHANGED <<notHost, h_test, h_term, h_duration>>

NextHost == RunTestOnHost

SpecHost == InitHost /\ [][NextHost]_vars

\* C1: run_test_on_host on a static test returns the outcome of the decision
\* table: normal completion with No gives Passed; normal completion with Yes
\* or YesWithMessage gives ShouldPanicButPassed; a panic with Yes gives Passed;
\* a panic with message M and YesWithMessage(e) gives Passed if M contains e
\* and Failed otherwise (Failed for a payload that is no string); a panic with
\* No gives Failed; a returned Err gives Failed for every should_panic.
C1_Table(term, sp) ==
    CASE term.kind = "ok" /\ sp.kind = "No" -> "Passed"
      [] term.kind = "ok" /\ sp.kind # "No" -> "ShouldPanicButPassed"
      [] term.kind = "panic" /\ sp.kind = "Yes" -> "Passed"
      [] term.kind = "panic" /\ sp.kind = "YesWithMessage" ->
            IF /\ term.payload # "other"
               /\ \E pre \in 0..Len(term.msg) :
                     /\ pre + Len(sp.msg) <= Len(term.msg)
                     /\ \A k \in 1..Len(sp.msg) : term.msg[pre + k] = sp.msg[k]
            THEN "Passed" ELSE "Failed"
      [] term.kind = "panic" /\ sp.kind = "No" -> "Failed"
      [] term.kind = "err" -> "Failed"

C1_HostDecisionTable ==
    (h_outcome.tag # "none" /\ h_test.testfn = "StaticTestFn") =>
        /\ h_outcome.tag = C1_Table(h_term, h_test.should_panic)
        /\ h_outcome.tag = "Passed" => h_outcome.info = h_duration

\* C1 witness: a panic with the message "ab" for YesWithMessage("b"): Passed.
C1_Witness ==
    /\ h_outcome.tag # "none"
    /\ h_test.testfn = "StaticTestFn"
    /\ h_test.should_panic = SP_YesWithMessage(<<"b">>)
    /\ h_term = [kind |-> "panic", payload |-> "String", msg |-> <<"a", "b">>]
    /\ h_outcome.tag = "Passed"

----------------------------------------------------------------------------
(***************************************************************************)
(* The guest dispatcher: run_single_test_in_valida and set_panic_handler   *)
(* of test_utils.rs over print, println, read_line and read_until of       *)
(* io.rs.  The request is whatever the input tape holds.                   *)
(***************************************************************************)

\* Bounds: the length of the registry, the bytes a test function writes.
MaxTests == 2
MaxTestOut == 1

TAB == "\t"
\* A byte that cannot occur in valid UTF-8 (0xFF).
NonUtf8 == "?"
\* What str::trim removes.
White_Space == {" ", TAB, NL, CR}

RECURSIVE TrimStart(_)
TrimStart(s) == IF s # <<>> /\ Head(s) \in White_Space THEN TrimStart(Tail(s)) ELSE s

RECURSIVE TrimEnd(_)
TrimEnd(s) ==
    IF s # <<>> /\ s[Len(s)] \in White_Space THEN TrimEnd(Take(s, Len(s) - 1)) ELSE s

Trim(s) == TrimEnd(TrimStart(s))

\* io::read_until: getchar until EOF (nothing consumed) or the stop byte
\* (consumed, not pushed).  res is the Vec built so far.
RECURSIVE read_until_loop(_, _, _, _)
read_until_loop(tape, pos, stop_char, res) ==
    IF pos >= Len(tape) THEN [bytes |-> res, pos |-> pos]
    ELSE IF tape[pos + 1] = stop_char THEN [bytes |-> res, pos |-> pos + 1]
    ELSE read_until_loop(tape, pos + 1, stop_char, Append(res, tape[pos + 1]))

read_until(tape, pos, stop_char) == read_until_loop(tape, pos, stop_char, <<>>)

\* std::str::from_utf8(&input) is Ok
from_utf8_ok(input) == \A i \in 1..Len(input) : input[i] # NonUtf8

\* io::read_line::<String>: read_until(b'\n')?, from_utf8(..)?.trim(), parse
\* (which cannot fail for String).
read_line(tape, pos) ==
    LET input == read_until(tape, pos, NL)
    IN  [ok |-> from_utf8_ok(input.bytes),
         value |-> IF from_utf8_ok(input.bytes) THEN Trim(input.bytes) ELSE <<>>,
         pos |-> input.pos]

\* io::println on the output tape.  io::print is called by the dispatcher
\* but not defined in io.rs; it is taken to write its argument without a
\* newline, as the one-line availability listing requires.
print(out, s) == out \o s
println(out, s) == out \o s \o <<NL>>

\* for t in tests.iter() { print(" ({}, {})") }
RECURSIVE PrintTests(_, _)
PrintTests(out, ts) ==
    IF ts = <<>> THEN out
    ELSE PrintTests(print(out, <<" ", "(">> \o Head(ts).name \o <<",", " ">>
                                  \o Head(ts).source_file \o <<")">>),
                    Tail(ts))

\* The availability line: print("Available tests:"), the pairs, println("").
AvailableTests(tests) == println(PrintTests(print(<<>>, <<"A">>), tests), <<>>)

\* The text the panic hook formats ("P" for "test '", "@" for "' in ", ":"
\* for the position and " panicked at .. with message:").
FailureMessage(t, msg) ==
    <<NL, NL, "P">> \o t.name \o <<"@">> \o t.source_file \o <<":", NL>> \o msg \o <<NL, NL>>

\* A hook that writes the Sentinel before the failure message.
PanicHook_SentinelFirst(out, t, msg) ==
    println(println(out, MAGIC_TERMINATOR), FailureMessage(t, msg))

\* The hook of set_panic_handler: println(&err); println(MAGIC_TERMINATOR).
PanicHook(out, t, msg) == println(println(out, FailureMessage(t, msg)), MAGIC_TERMINATOR)

\* What a panic writes to the output tape: with the hook of
\* set_panic_handler in place, what that hook prints; with the default hook
\* of the standard library, nothing (its report goes to stderr).
HookOutput(out, tests, hook, msg) ==
    IF hook = 0 THEN out ELSE PanicHook(out, tests[hook], msg)

\* The hook is left as it was.
set_panic_handler_Skipped(hook, found) == hook

\* set_panic_handler(test): panic::set_hook replaces the hook in place by
\* the one for the descriptor found.
set_panic_handler(hook, found) == found

\* A find that looks at the name only.
Find_NameOnly(tests, name, file) ==
    LET hits == {i \in 1..Len(tests) : tests[i].name = name}
    IN  IF hits = {} THEN 0 ELSE CHOOSE i \in hits : \A j \in hits : i <= j

\* A find for which an empty file name matches every source_file.
Find_EmptyFileMatchesAny(tests, name, file) ==
    LET hits == {i \in 1..Len(tests) :
                    tests[i].name = name /\ (file = <<>> \/ tests[i].source_file = file)}
    IN  IF hits = {} THEN 0 ELSE CHOOSE i \in hits : \A j \in hits : i <= j

\* tests.iter().find(|t| t.desc.name.as_slice() == test_name
\*                       && t.desc.source_file == test_file): 0 for None.
Find(tests, name, file) ==
    LET hits == {i \in 1..Len(tests) :
                    tests[i].name = name /\ tests[i].source_file = file}
    IN  IF hits = {} THEN 0 ELSE CHOOSE i \in hits : \A j \in hits : i <= j

Descriptors ==
    {[name |-> n, source_file |-> f, testfn |-> k] :
        n \in {<<"t">>, <<"u">>},
        f \in {<<"f">>, <<" ", "f">>},
        k \in {"StaticTestFn", "DynTestFn"}}

Registries == UNION {[1..n -> Descriptors] : n \in 0..MaxTests}

\* What the input tape may hold as first and as second line.
NameLines == {<<"t">>, <<" ", "t">>, <<"t", CR>>, <<"u">>, <<NonUtf8>>, <<>>}
FileLines == {<<"f">>, <<" ", "f">>, <<"f", " ">>, <<"g">>, <<NonUtf8>>}

Tapes ==
    {<<>>}
    \cup {l \o e : l \in NameLines, e \in {<<>>, <<NL>>}}
    \cup {l1 \o <<NL>> \o l2 \o e : l1 \in NameLines, l2 \in FileLines, e \in {<<>>, <<NL>>}}

\* What a test function writes: any bytes but the body of the Sentinel,
\* which is random text no test output holds.
TestBytes == {"x", NL}
PanicTexts == {<<"m">>, <<"B">>}

InitGuest ==
    /\ HostIdle
    /\ SupervisorIdle
    /\ CodecIdle
    /\ RunnerIdle
    /\ SearchIdle
    /\ g_tests \in Registries
    /\ g_tape \in Tapes
    /\ g_pos = 0
    /\ g_out = <<>>
    /\ g_pc = "start"
    /\ g_name = <<>>
    /\ g_file = <<>>
    /\ g_found = 0
    /\ g_hook = 0
    /\ g_invoked = <<>>
    /\ g_budget = 0

\* print("Available tests:"); for t in tests { print(..) }; println("")
GuestPrintAvailable ==
    /\ g_pc = "start"
    /\ g_out' = AvailableTests(g_tests)
    /\ g_pc' = "read_name"
    /\ UNCHANGED <<notGuest, g_tests, g_tape, g_pos, g_name, g_file, g_found,
                   g_hook, g_invoked, g_budget>>

\* let Ok(test_name) = read_line::<String>() else { return };
GuestReadName ==
    /\ g_pc = "read_name"
    /\ LET r == read_line(g_tape, g_pos)
       IN  /\ g_pos' = r.pos
           /\ g_name' = r.value
           /\ g_pc' = IF r.ok THEN "read_file" ELSE "returned"
    /\ UNCHANGED <<notGuest, g_tests, g_tape, g_out, g_file, g_found, g_hook,
                   g_invoked, g_budget>>

\* let Ok(test_file) = read_line::<String>() else { return };
GuestReadFile ==
    /\ g_pc = "read_file"
    /\ LET r == read_line(g_tape, g_pos)
       IN  /\ g_pos' = r.pos
           /\ g_file' = r.value
           /\ g_pc' = IF r.ok THEN "find" ELSE "returned"
    /\ UNCHANGED <<notGuest, g_tests, g_tape, g_out, g_name, g_found, g_hook,
                   g_invoked, g_budget>>

\* let test_name = test_name.trim(); let test = tests.iter().find(..);
\* if let Some(test) = test { set_panic_handler(test); println(second line); .. }
GuestSelect ==
    /\ g_pc = "find"
    /\ LET f == Find(g_tests, Trim(g_name), g_file)
       IN  /\ g_found' = f
           /\ IF f # 0
              THEN /\ g_hook' = set_panic_handler(g_hook, f)
                   /\ g_out' = println(g_out, valida_test_second_line_stdout(g_tests[f]))
                   /\ g_pc' = "matched"
              ELSE /\ g_pc' = "returned"
                   /\ UNCHANGED <<g_hook, g_out>>
    /\ UNCHANGED <<notGuest, g_tests, g_tape, g_pos, g_name, g_file, g_invoked,
                   g_budget>>

\* if let TestFn::StaticTestFn(f) = test.testfn { let _ = f(); }
GuestInvoke ==
    /\ g_pc = "matched"
    /\ IF g_tests[g_found].testfn = "StaticTestFn"
       THEN /\ g_invoked' = Append(g_invoked, g_found)
            /\ g_budget' = MaxTestOut
            /\ g_pc' = "in_test"
       ELSE /\ g_pc' = "returned"
            /\ UNCHANGED <<g_invoked, g_budget>>
    /\ UNCHANGED <<notGuest, g_tests, g_tape, g_pos, g_out, g_name, g_file,
                   g_found, g_hook>>

\* The test function writes a byte of its own output.
TestWrite ==
    /\ g_pc = "in_test"
    /\ g_budget > 0
    /\ \E b \in TestBytes : g_out' = Append(g_out, b)
    /\ g_budget' = g_budget - 1
    /\ UNCHANGED <<notGuest, g_tests, g_tape, g_pos, g_pc, g_name, g_file,
                   g_found, g_hook, g_invoked>>

\* The test function returns; run_single_test_in_valida returns after it.
TestReturn ==
    /\ g_pc = "in_test"
    /\ g_pc' = "returned"
    /\ UNCHANGED <<notGuest, g_tests, g_tape, g_pos, g_out, g_name, g_file,
                   g_found, g_hook, g_invoked, g_budget>>

\* The test function panics: the hook in place runs.
TestPanic ==
    /\ g_pc = "in_test"
    /\ \E msg \in PanicTexts : g_out' = HookOutput(g_out, g_tests, g_hook, msg)
    /\ g_pc' = "panicked"
    /\ UNCHANGED <<notGuest, g_tests, g_tape, g_pos, g_name, g_file, g_found,
                   g_hook, g_invoked, g_budget>>

\* The dispatcher itself terminates abnormally, at a point before a test was
\* selected (while it formats and writes the availability line, while it
\* reads the request): the hook in place at that point runs.
GuestAbort ==
    /\ g_pc \in {"start", "read_name", "read_file", "find"}
    /\ \E msg \in PanicTexts : g_out' = HookOutput(g_out, g_tests, g_hook, msg)
    /\ g_pc' = "aborted"
    /\ UNCHANGED <<notGuest, g_tests, g_tape, g_pos, g_name, g_file, g_found, g_hook,
                   g_invoked, g_budget>>

NextGuest ==
    \/ GuestAbort
    \/ GuestPrintAvailable
    \/ GuestReadName
    \/ GuestReadFile
    \/ GuestSelect
    \/ GuestInvoke
    \/ TestWrite
    \/ TestReturn
    \/ TestPanic

SpecGuest == InitGuest /\ [][NextGuest]_vars

----------------------------------------------------------------------------
(* Claims about the guest dispatcher.                                      *)

\* The request as it lies on the input tape: the bytes before the first
\* newline, and the bytes between it and the second one (or the end).
RequestName == read_until(g_tape, 0, NL).bytes
RequestFile == read_until(g_tape, read_until(g_tape, 0, NL).pos, NL).bytes

StartsWith(s, p) == Len(p) <= Len(s) /\ Take(s, Len(p)) = p

\* What the output tape holds after the availability line.
AfterAvailable == Drop(g_out, Len(AvailableTests(g_tests)))

HandshakeOf(i) == valida_test_second_line_stdout(g_tests[i]) \o <<NL>>

WroteHandshake == \E i \in 1..Len(g_tests) : StartsWith(AfterAvailable, HandshakeOf(i))

\* The dispatcher has decided on the request.
Dispatched == g_pc \in {"matched", "in_test", "panicked", "returned"}
PastInvoke == g_pc \in {"in_test", "panicked", "returned"}

\* C10 as stated: the handshake line is written if and only if a descriptor
\* has exactly the name and the source_file of the request as it was sent;
\* otherwise nothing follows the availability line and nothing is invoked;
\* on a match the function of exactly that descriptor is invoked.
C10_Original ==
    Dispatched =>
        LET exact == {i \in 1..Len(g_tests) :
                         /\ g_tests[i].name = RequestName
                         /\ g_tests[i].source_file = RequestFile}
        IN  /\ StartsWith(g_out, AvailableTests(g_tests))
            /\ WroteHandshake <=> exact # {}
            /\ exact = {} => AfterAvailable = <<>> /\ g_invoked = <<>>
            /\ exact # {} /\ PastInvoke => \E i \in exact : g_invoked = <<i>>

\* C10, amended: the handshake line is written if and only if both request
\* lines are valid UTF-8 and a descriptor has the name and the source_file of
\* the request after surrounding whitespace was trimmed from both lines;
\* otherwise nothing follows the availability line and nothing is invoked.
\* On a match the first such descriptor in registry order is selected; its
\* function is invoked once if it is a StaticTestFn, no function is invoked
\* if it is of another kind, and no other descriptor's function ever is.
C10_TrimmedKeyDispatch ==
    Dispatched =>
        LET valid == from_utf8_ok(RequestName) /\ from_utf8_ok(RequestFile)
            hits == IF valid
                    THEN {i \in 1..Len(g_tests) :
                             /\ g_tests[i].name = Trim(RequestName)
                             /\ g_tests[i].source_file = Trim(RequestFile)}
                    ELSE {}
        IN  /\ StartsWith(g_out, AvailableTests(g_tests))
            /\ WroteHandshake <=> hits # {}
            /\ hits = {} => AfterAvailable = <<>> /\ g_invoked = <<>>
            /\ hits # {} =>
                 LET first == CHOOSE i \in hits : \A j \in hits : i <= j
                 IN  /\ StartsWith(AfterAvailable, HandshakeOf(first))
                     /\ g_invoked \in {<<>>, <<first>>}
                     /\ PastInvoke =>
                          g_invoked = IF g_tests[first].testfn = "StaticTestFn"
                                      THEN <<first>> ELSE <<>>

\* A request sent with padding selected the second descriptor of a registry
\* of two, whose function ran and returned; the first was never invoked.
C10_Witness ==
    /\ g_pc = "returned"
    /\ Len(g_tests) = 2
    /\ g_invoked = <<2>>
    /\ RequestName # g_tests[2].name
    /\ WroteHandshake

\* The input tape ends before a second line starts: it is empty, or holds
\* the first line only (terminated or not).
TapeExhaustedEarly == read_until(g_tape, 0, NL).pos = Len(g_tape)

\* C11: when the input tape is exhausted before both request lines were read
\* (no line, or only the first line), nothing follows the availability line:
\* no handshake line is written and no test function is invoked.
C11_ExhaustedTape ==
    TapeExhaustedEarly =>
        /\ ~WroteHandshake
        /\ g_invoked = <<>>
        /\ g_pc \notin {"start", "aborted"} => g_out = AvailableTests(g_tests)

\* The tape held only the name of a test of the registry; the dispatcher read
\* both lines (the second one empty, at the end of the tape), looked the
\* request up and returned.
C11_Witness ==
    /\ TapeExhaustedEarly
    /\ g_pc = "returned"
    /\ g_found = 0
    /\ g_pos = Len(g_tape)
    /\ g_file = <<>>
    /\ \E i \in 1..Len(g_tests) : g_tests[i].name = g_name

----------------------------------------------------------------------------
(***************************************************************************)
(* Value framing: write, write_vec, read and read_and_deserialize of       *)
(* io.rs.  Bytes are the numbers 0..255 here.  The binary rule is the one  *)
(* both functions configure: bincode with fixed-width little-endian        *)
(* integers, a sequence as its length in 8 bytes and then its elements,    *)
(* and (the default of bincode::options()) an error when bytes remain      *)
(* after the value.                                                        *)
(***************************************************************************)

\* Bound: the length of a Vec<u8> value.
MaxVecLen == 2

BYTE == 256
ASCII_ZERO == 48
ASCII_NL == 10
FIXINT_LEN_WIDTH == 8

\* n in w little-endian bytes
RECURSIVE ToLE(_, _)
ToLE(n, w) == IF w = 0 THEN <<>> ELSE <<n % BYTE>> \o ToLE(n \div BYTE, w - 1)

\* The number a little-endian length field holds; a field with a byte set
\* above the third holds more than any tape can supply.
HugeLen == BYTE * BYTE * BYTE
FromLEField(b) ==
    IF \E i \in 4..Len(b) : b[i] # 0 THEN HugeLen
    ELSE b[1] + BYTE * b[2] + BYTE * BYTE * b[3]

\* usize::to_string, as ASCII bytes
RECURSIVE ToDecimal(_)
ToDecimal(n) ==
    IF n < 10 THEN <<ASCII_ZERO + n>>
    ELSE ToDecimal(n \div 10) \o <<ASCII_ZERO + (n % 10)>>

\* bincode::options().with_fixint_encoding().with_little_endian().serialize
Serialize(v) ==
    CASE v.ty = "unit" -> <<>>
      [] v.ty = "u8" -> <<v.val>>
      [] v.ty = "u16" -> ToLE(v.val, 2)
      [] v.ty = "vec" -> ToLE(Len(v.val), FIXINT_LEN_WIDTH) \o v.val

DeErr == [ok |-> FALSE, val |-> 0]
DeOk(x) == [ok |-> TRUE, val |-> x]

\* ...deserialize(&bytes): the value of type ty at the head of bytes; an
\* error when bytes run out, and when bytes remain after the value.
Deserialize(ty, bytes) ==
    CASE ty = "unit" -> IF Len(bytes) = 0 THEN DeOk(0) ELSE DeErr
      [] ty = "u8" -> IF Len(bytes) = 1 THEN DeOk(bytes[1]) ELSE DeErr
      [] ty = "u16" -> IF Len(bytes) = 2 THEN DeOk(bytes[1] + BYTE * bytes[2]) ELSE DeErr
      [] ty = "vec" ->
           IF Len(bytes) < FIXINT_LEN_WIDTH THEN DeErr
           ELSE LET n == FromLEField(Take(bytes, FIXINT_LEN_WIDTH))
                IN  IF Len(bytes) - FIXINT_LEN_WIDTH = n
                    THEN DeOk(Drop(bytes, FIXINT_LEN_WIDTH))
                    ELSE DeErr

\* io::write_vec: putchar of every byte
write_vec(out, v) == out \o v

\* io::write: the serialized length in decimal, a newline, the bytes
write(out, v) ==
    LET bytes == Serialize(v)
        n == Append(ToDecimal(Len(bytes)), ASCII_NL)
    IN  write_vec(write_vec(out, n), bytes)

\* io::read: getchar until EOF
read(tape, pos) == Drop(tape, pos)

\* io::read_and_deserialize: read(), then deserialize all of it
read_and_deserialize(ty, tape) == Deserialize(ty, read(tape, 0))

VecBytes == {0, ASCII_NL, ASCII_ZERO + 1}

RECURSIVE VecsUpTo(_)
VecsUpTo(n) ==
    IF n = 0 THEN {<<>>}
    ELSE VecsUpTo(n - 1) \cup {Append(s, b) : s \in VecsUpTo(n - 1), b \in VecBytes}

CodecValues ==
    {[ty |-> "unit", val |-> 0]}
    \cup {[ty |-> "u8", val |-> n] : n \in 0..(BYTE - 1)}
    \cup {[ty |-> "u16", val |-> n] : n \in {0, 1, ASCII_ZERO + 2 + BYTE * ASCII_NL, BYTE * BYTE - 1}}
    \cup {[ty |-> "vec", val |-> s] : s \in VecsUpTo(MaxVecLen)}

InitCodec ==
    /\ HostIdle
    /\ SupervisorIdle
    /\ GuestIdle
    /\ RunnerIdle
    /\ SearchIdle
    /\ c_value \in CodecValues
    /\ c_out = <<>>
    /\ c_in = <<>>
    /\ c_result = [ok |-> FALSE, val |-> 0]
    /\ c_pc = "start"

\* write(&value)
CodecWrite ==
    /\ c_pc = "start"
    /\ c_out' = write(c_out, c_value)
    /\ c_pc' = "written"
    /\ UNCHANGED <<notCodec, c_value, c_in, c_result>>

\* The bytes of the output tape are supplied as the input tape of a reader.
CodecFeed ==
    /\ c_pc = "written"
    /\ c_in' = c_out
    /\ c_pc' = "fed"
    /\ UNCHANGED <<notCodec, c_value, c_out, c_result>>

\* read_and_deserialize::<T>()
CodecReadAndDeserialize ==
    /\ c_pc = "fed"
    /\ c_result' = read_and_deserialize(c_value.ty, c_in)
    /\ c_pc' = "done"
    /\ UNCHANGED <<notCodec, c_value, c_out, c_in>>

NextCodec ==
    \/ CodecWrite
    \/ CodecFeed
    \/ CodecReadAndDeserialize

SpecCodec == InitCodec /\ [][NextCodec]_vars

\* C12 as stated: reading back with read_and_deserialize what write(v) wrote
\* yields v again.
C12_Original == c_pc = "done" => c_result.ok /\ c_result.val = c_value.val

----------------------------------------------------------------------------
(***************************************************************************)
(* The run of all tests: host_runner.  What run_test_on_host and           *)
(* run_test_on_valida return for a test is given with the test (fields     *)
(* host and guest); a guest run may also panic, when the guest runner      *)
(* cannot be spawned.                                                      *)
(***************************************************************************)

\* Bound: the length of the registry.
MaxRunnerTests == 3

\* str::to_lowercase on the letters that occur
Lower(c) ==
    CASE c = "T" -> "t" [] c = "R" -> "r" [] c = "U" -> "u" [] c = "E" -> "e"
      [] c = "Y" -> "y" [] c = "S" -> "s" [] c = "O" -> "o" [] c = "N" -> "n"
      [] OTHER -> c

to_lowercase(s) == [i \in 1..Len(s) |-> Lower(s[i])]

\* val == "1" || val == "true" || val == "yes" || val == "on"
TruthyWords == {<<"1">>, <<"t", "r", "u", "e">>, <<"y", "e", "s">>, <<"o", "n">>}

\* The setting compared as it is.
RunTestsOnValida_NoLowercase(env) == env.kind = "set" /\ env.val \in TruthyWords

\* A setting that cannot be read counts as enabled.
RunTestsOnValida_DefaultOn(env) ==
    IF env.kind = "set" THEN to_lowercase(env.val) \in TruthyWords ELSE TRUE

\* env::var("VALIDA_TEST").map(|s| s.to_lowercase()), then the match:
\* Ok(val) => val is one of the words, Err(_) => false.
RunTestsOnValida(env) ==
    IF env.kind = "set" THEN to_lowercase(env.val) \in TruthyWords ELSE FALSE

\* t.desc.ignore, never looked at.
IsIgnored_Never(t) == FALSE

\* if t.desc.ignore
IsIgnored(t) == t.ignore

\* The exit code without the guest failures.
ExitCode_HostOnly(f, vf) == IF f = 0 THEN 0 ELSE 1

\* let test_result = failed == 0 && valida_failed == 0;
\* exit(0) if test_result, exit(1) otherwise
ExitCode(f, vf) == IF f = 0 /\ vf = 0 THEN 0 ELSE 1

\* tests.iter().filter(|t| t.desc.name.as_slice().contains(f)) / all of them
RECURSIVE FilterTests(_, _, _)
FilterTests(tests, filter, k) ==
    IF k > Len(tests) THEN <<>>
    ELSE IF ~filter.given \/ Contains(tests[k].name, filter.text)
         THEN <<k>> \o FilterTests(tests, filter, k + 1)
         ELSE FilterTests(tests, filter, k + 1)

\* The settings looked at with every registry, and those looked at with
\* short registries only.
BasicSettings ==
    {[kind |-> "unset", val |-> <<>>],
     [kind |-> "set", val |-> <<"1">>],
     [kind |-> "set", val |-> <<"0">>]}

OtherSettings ==
    {[kind |-> "not_unicode", val |-> <<>>]}
    \cup {[kind |-> "set", val |-> v] :
            v \in {<<"t", "r", "u", "e">>, <<"T", "R", "U", "E">>, <<"T", "r", "u", "e">>,
                   <<"y", "e", "s">>, <<"Y", "e", "s">>, <<"o", "n">>, <<"O", "N">>,
                   <<"o", "f", "f">>, <<>>, <<"2">>, <<" ", "1">>, <<"t", "r", "u">>}}

\* A test of the registry with what its runs return, or how they panic:
\* run_test_on_host when the capture of the output cannot be set up or read
\* back (the expect and unwrap calls on the temp file and the redirections),
\* run_test_on_valida when the temp log file cannot be created or the guest
\* runner cannot be spawned.
RunnerTests ==
    {[name |-> n, ignore |-> g, host |-> h, guest |-> v] :
        n \in {<<"a">>, <<"b">>},
        g \in BOOLEAN,
        h \in {"Passed", "Failed", "ShouldPanicButPassed", "Unsupported", "capture_panic"},
        v \in {"Ok", "Err", "tempfile_panic", "spawn_panic"}}

\* run_test_on_host: the expect(..) and unwrap() calls panic in host_runner.
HostEscalates(r) == r = "capture_panic"

\* A variant that sends every test run on the host to the guest.
SentToGuest_AnyOutcome(r, enabled) == enabled

\* TestOutcome::Passed(test_time) => { .. if run_tests_on_valida { .. } }
SentToGuest(r, enabled) == r = "Passed" /\ enabled

\* A variant in which an Err of run_test_on_valida ends the run.
GuestEscalates_OnErr(r) == r # "Ok"

\* run_test_on_valida_inner: NamedTempFile::new().expect(..) and the panic!
\* in the map_err of spawn() panic in host_runner.
GuestEscalates(r) == r \in {"tempfile_panic", "spawn_panic"}

\* One descriptor for each way a test can go.
RunnerKinds ==
    {t \in RunnerTests :
        /\ t.ignore => t.host = "Passed" /\ t.guest = "Ok"
        /\ t.host # "Passed" => t.guest = "Ok"}

RunnerFilters == {[given |-> FALSE, text |-> <<>>], [given |-> TRUE, text |-> <<"a">>]}

InitRunner ==
    /\ HostIdle
    /\ SupervisorIdle
    /\ GuestIdle
    /\ CodecIdle
    /\ SearchIdle
    /\ r_env \in BasicSettings \cup OtherSettings
    /\ r_buildOk \in BOOLEAN
    /\ r_tests \in UNION {[1..n -> RunnerKinds] : n \in 0..MaxRunnerTests}
    /\ r_env \in OtherSettings => Len(r_tests) <= 1
    /\ ~RunTestsOnValida(r_env) => r_buildOk
    /\ r_filter \in RunnerFilters
    \* without a filter the names play no part: one name is enough
    /\ ~r_filter.given => \A k \in 1..Len(r_tests) : r_tests[k].name = <<"a">>
    /\ r_pc = "start"
    /\ run_tests_on_valida = FALSE
    /\ filtered_tests = <<>>
    /\ r_i = 0
    /\ passed = 0
    /\ valida_passed = 0
    /\ ignored = 0
    /\ failed = 0
    /\ valida_failed = 0
    /\ unsupported = 0
    /\ r_builds = 0
    /\ r_hostRuns = <<>>
    /\ r_guestRuns = <<>>
    /\ r_exit = "none"

runnerInputs == <<r_env, r_buildOk, r_tests, r_filter>>
counters == <<passed, valida_passed, ignored, failed, valida_failed, unsupported>>

\* let run_tests_on_valida = match env::var("VALIDA_TEST")... { .. };
RunnerReadEnv ==
    /\ r_pc = "start"
    /\ run_tests_on_valida' = RunTestsOnValida(r_env)
    /\ r_pc' = "build"
    /\ UNCHANGED <<notRunner, runnerInputs, counters, filtered_tests, r_i, r_builds,
                   r_hostRuns, r_guestRuns, r_exit>>

\* if run_tests_on_valida { build_tests_for_valida() }: the build panics
\* when cargo fails.
RunnerBuild ==
    /\ r_pc = "build"
    /\ run_tests_on_valida
    /\ r_builds' = r_builds + 1
    /\ r_pc' = IF r_buildOk THEN "filter" ELSE "panicked"
    /\ UNCHANGED <<notRunner, runnerInputs, counters, run_tests_on_valida, filtered_tests,
                   r_i, r_hostRuns, r_guestRuns, r_exit>>

\* else { vec![] }
RunnerNoBuild ==
    /\ r_pc = "build"
    /\ ~run_tests_on_valida
    /\ r_pc' = "filter"
    /\ UNCHANGED <<notRunner, runnerInputs, counters, run_tests_on_valida, filtered_tests,
                   r_i, r_builds, r_hostRuns, r_guestRuns, r_exit>>

\* let filtered_tests = match &filter { .. };
RunnerFilter ==
    /\ r_pc = "filter"
    /\ filtered_tests' = FilterTests(r_tests, r_filter, 1)
    /\ r_i' = 1
    /\ r_pc' = "loop"
    /\ UNCHANGED <<notRunner, runnerInputs, counters, run_tests_on_valida, r_builds,
                   r_hostRuns, r_guestRuns, r_exit>>

CurrentTest == r_tests[filtered_tests[r_i]]
InLoop == r_pc = "loop" /\ r_i <= Len(filtered_tests)

\* if t.desc.ignore { ignored += 1; continue; }
RunnerIgnored ==
    /\ InLoop
    /\ IsIgnored(CurrentTest)
    /\ ignored' = ignored + 1
    /\ r_i' = r_i + 1
    /\ UNCHANGED <<notRunner, runnerInputs, passed, valida_passed, failed, valida_failed,
                   unsupported, r_pc, run_tests_on_valida, filtered_tests, r_builds,
                   r_hostRuns, r_guestRuns, r_exit>>

\* let r = run_test_on_host(t); match r { .. }: the counter of the arm; a
\* test that passed goes on to the guest when run_tests_on_valida; a panic
\* of run_test_on_host ends host_runner.
RunnerHostRun ==
    /\ InLoop
    /\ ~IsIgnored(CurrentTest)
    /\ r_hostRuns' = Append(r_hostRuns, filtered_tests[r_i])
    /\ LET r == CurrentTest.host
       IN  /\ passed' = IF r = "Passed" THEN passed + 1 ELSE passed
           /\ failed' = IF r \in {"Failed", "ShouldPanicButPassed"} THEN failed + 1 ELSE failed
           /\ unsupported' = IF r = "Unsupported" THEN unsupported + 1 ELSE unsupported
           /\ IF HostEscalates(r)
              THEN r_pc' = "panicked" /\ r_i' = r_i
              ELSE IF SentToGuest(r, run_tests_on_valida)
              THEN r_pc' = "guest" /\ r_i' = r_i
              ELSE r_pc' = "loop" /\ r_i' = r_i + 1
    /\ UNCHANGED <<notRunner, runnerInputs, valida_passed, ignored, valida_failed,
                   run_tests_on_valida, filtered_tests, r_builds, r_guestRuns, r_exit>>

\* match run_test_on_valida(t, &test_paths, test_time) { Ok(()) => .., Err(msg) => .. };
\* the call panics when the temp log file cannot be created or the guest
\* runner cannot be spawned.
RunnerGuestRun ==
    /\ r_pc = "guest"
    /\ r_guestRuns' = Append(r_guestRuns, filtered_tests[r_i])
    /\ LET r == CurrentTest.guest
       IN  /\ valida_passed' = IF r = "Ok" THEN valida_passed + 1 ELSE valida_passed
           /\ valida_failed' = IF r = "Err" THEN valida_failed + 1 ELSE valida_failed
           /\ IF GuestEscalates(r)
              THEN r_pc' = "panicked" /\ r_i' = r_i
              ELSE r_pc' = "loop" /\ r_i' = r_i + 1
    /\ UNCHANGED <<notRunner, runnerInputs, passed, ignored, failed, unsupported,
                   run_tests_on_valida, filtered_tests, r_builds, r_hostRuns, r_exit>>

\* After the loop: the summary, then std::process::exit(0) or exit(1).
RunnerExit ==
    /\ r_pc = "loop"
    /\ r_i > Len(filtered_tests)
    /\ r_exit' = ExitCode(failed, valida_failed)
    /\ r_pc' = "exited"
    /\ UNCHANGED <<notRunner, runnerInputs, counters, run_tests_on_valida, filtered_tests,
                   r_i, r_builds, r_hostRuns, r_guestRuns>>

NextRunner ==
    \/ RunnerReadEnv
    \/ RunnerBuild
    \/ RunnerNoBuild
    \/ RunnerFilter
    \/ RunnerIgnored
    \/ RunnerHostRun
    \/ RunnerGuestRun
    \/ RunnerExit

SpecRunner == InitRunner /\ [][NextRunner]_vars

----------------------------------------------------------------------------
(* Claims about host_runner.                                               *)

\* The filtered tests, computed from the registry alone.
FilteredSet == {k \in 1..Len(r_tests) : ~r_filter.given \/ Contains(r_tests[k].name, r_filter.text)}

\* The setting enables guest execution: one of the four words, in any case.
UpperOf(c) ==
    CASE c = "t" -> "T" [] c = "r" -> "R" [] c = "u" -> "U" [] c = "e" -> "E"
      [] c = "y" -> "Y" [] c = "s" -> "S" [] c = "o" -> "O" [] c = "n" -> "N"
      [] OTHER -> c
SameIgnoringCase(s, w) ==
    /\ Len(s) = Len(w)
    /\ \A i \in 1..Len(w) : s[i] \in {w[i], UpperOf(w[i])}
SettingEnables ==
    /\ r_env.kind = "set"
    /\ \E w \in {<<"1">>, <<"t", "r", "u", "e">>, <<"y", "e", "s">>, <<"o", "n">>} :
          SameIgnoringCase(r_env.val, w)

\* Test k ended well on every environment it runs on.
EndedWell(k) ==
    \/ r_tests[k].ignore
    \/ r_tests[k].host = "Unsupported"
    \/ /\ r_tests[k].host = "Passed"
       /\ SettingEnables => r_tests[k].guest = "Ok"

\* C13: host_runner exits with code 0 if and only if every executed test
\* ended Passed, Ignored or Unsupported on every enabled environment, and
\* with code 1 otherwise; with a filter that matches no test the code is 0.
C13_ExitCode ==
    r_pc = "exited" =>
        /\ r_exit \in {0, 1}
        /\ r_exit = 0 <=> \A k \in FilteredSet : EndedWell(k)
        /\ FilteredSet = {} => r_exit = 0

\* A run in which every test passed on the host and one failed on the guest
\* only: exit code 1.
C13_Witness ==
    /\ r_pc = "exited"
    /\ r_exit = 1
    /\ failed = 0
    /\ valida_failed = 1
    /\ passed = 2


Range(s) == {s[i] : i \in 1..Len(s)}

\* The 3-test scenario: one ignored test, two tests that pass, no filter,
\* guest execution disabled.
IgnoreScenario ==
    /\ Len(r_tests) = 3
    /\ ~r_filter.given
    /\ ~SettingEnables
    /\ Cardinality({k \in 1..3 : r_tests[k].ignore}) = 1
    /\ \A k \in 1..3 : ~r_tests[k].ignore => r_tests[k].host = "Passed"

C14_State ==
    /\ \A k \in Range(r_hostRuns) \cup Range(r_guestRuns) : ~r_tests[k].ignore
    /\ r_pc = "exited" =>
         /\ passed + failed + ignored + unsupported = Cardinality(FilteredSet)
         /\ ignored = Cardinality({k \in FilteredSet : r_tests[k].ignore})
         /\ IgnoreScenario => passed = 2 /\ ignored = 1 /\ failed = 0

\* The iteration of an ignored test adds one to ignored and leaves the other
\* counters and the runs alone.
C14_Step ==
    (InLoop /\ CurrentTest.ignore) =>
        /\ ignored' = ignored + 1
        /\ UNCHANGED <<passed, valida_passed, failed, valida_failed, unsupported,
                       r_hostRuns, r_guestRuns>>

\* C14: a test with ignore set is never executed on the host nor on the guest
\* and increments only the ignored counter; at the end of a run
\* passed + failed + ignored + unsupported is the number of filtered tests,
\* and the 3-test scenario (one ignored, two passing, guest disabled, no
\* filter) ends with passed = 2, ignored = 1, failed = 0.
C14_Ignore == []C14_State /\ [][C14_Step]_vars

\* The end of the 3-test scenario.
C14_Witness ==
    /\ r_pc = "exited"
    /\ IgnoreScenario
    /\ passed = 2
    /\ ignored = 1
    /\ r_hostRuns \in {<<1, 2>>, <<1, 3>>, <<2, 3>>}


\* C15: guest execution is enabled exactly when the VALIDA_TEST setting is,
\* in any letter case, one of "1", "true", "yes", "on"; when it is disabled
\* no guest build is run, no test is sent to a guest runner, and the guest
\* passed and guest failed counters stay 0.
C15_Toggle ==
    /\ r_pc \notin {"idle", "start"} => (run_tests_on_valida <=> SettingEnables)
    /\ ~SettingEnables =>
         /\ r_builds = 0
         /\ r_guestRuns = <<>>
         /\ valida_passed = 0
         /\ valida_failed = 0

\* A setting written with capital letters enabled the guest: the build ran
\* and the test that passed on the host was sent to the guest.
C15_Witness ==
    /\ r_pc = "exited"
    /\ r_env.kind = "set"
    /\ r_env.val # to_lowercase(r_env.val)
    /\ run_tests_on_valida
    /\ r_builds = 1
    /\ r_guestRuns = <<1>>


\* The filtered tests that are not ignored, and those of them that pass on
\* the host, in registry order.
Indices == [k \in 1..Len(r_tests) |-> k]
ToRunOnHost == SelectSeq(Indices, LAMBDA k : k \in FilteredSet /\ ~r_tests[k].ignore)
ToRunOnGuest ==
    SelectSeq(Indices, LAMBDA k : /\ k \in FilteredSet
                                  /\ ~r_tests[k].ignore
                                  /\ r_tests[k].host = "Passed")

SettingUnset == r_env.kind = "unset"
SettingIs(v) == r_env.kind = "set" /\ r_env.val = v

ExpectedAvailability ==
    <<"A">>
    \o Flatten([k \in 1..Len(g_tests) |->
                   <<" ", "(">> \o g_tests[k].name \o <<",", " ">>
                   \o g_tests[k].source_file \o <<")">>])
    \o <<NL>>

\* The 0-based start indices of the Sentinel on the output tape.
SentinelStarts == {i \in 0..Len(g_out) : MatchAt(g_out, i, MAGIC_TERMINATOR)}

OnlyTestBytes(s) == \A i \in 1..Len(s) : s[i] \in TestBytes

\* s is some test output followed by the failure message of test t, a
\* newline, the Sentinel and a newline.
EndsInPanicReport(s, t) ==
    \E n \in 0..Len(s), msg \in PanicTexts :
        /\ OnlyTestBytes(Take(s, n))
        /\ Drop(s, n) = FailureMessage(t, msg) \o <<NL>> \o MAGIC_TERMINATOR \o <<NL>>

\* C17: the output tape holds, in this order, the availability line that
\* lists every pair of the registry; only on a match the handshake line;
\* then the output of the test; then, only if the test panicked, the failure
\* message followed by the Sentinel.  The Sentinel is on the tape only when
\* the selected test panicked, and never before the end of the handshake line.
C17_OutputOrder ==
    /\ g_pc \notin {"idle", "start", "aborted"} => StartsWith(g_out, ExpectedAvailability)
    /\ g_pc \in {"idle", "start"} => g_out = <<>>
    /\ (g_pc \notin {"idle", "start"} /\ g_found = 0) =>
          g_out \in {<<>>, ExpectedAvailability}
    /\ g_found # 0 =>
          /\ StartsWith(g_out, ExpectedAvailability \o HandshakeOf(g_found))
          /\ LET body == Drop(g_out, Len(ExpectedAvailability \o HandshakeOf(g_found)))
             IN  /\ body # <<>> => g_invoked = <<g_found>>
                 /\ IF g_pc = "panicked"
                    THEN EndsInPanicReport(body, g_tests[g_found])
                    ELSE OnlyTestBytes(body)
    /\ SentinelStarts # {} =>
          /\ g_pc = "panicked"
          /\ g_found # 0
          /\ \A i \in SentinelStarts :
                i >= Len(ExpectedAvailability \o HandshakeOf(g_found))

\* The second test of a registry of two was selected, wrote output and
\* panicked: the tape ends with the failure message and the Sentinel.
C17_Witness ==
    /\ g_pc = "panicked"
    /\ Len(g_tests) = 2
    /\ g_found = 2
    /\ g_budget < MaxTestOut
    /\ Cardinality(SentinelStarts) = 1


\* C18 as stated: the handler is installed at the start, before the
\* availability line is written and before the request is read, so that an
\* abnormal termination at any later point of the dispatcher writes the
\* failure message followed by the Sentinel.
C18_Original ==
    /\ (g_out # <<>> \/ g_pos > 0) => g_hook # 0
    /\ (g_pc = "aborted" /\ g_out # <<>>) => SentinelStarts # {}

\* C18, amended: the handler is installed only once a descriptor was found
\* for the request, after the availability line was written and the request
\* read, right before the handshake line is written, and it is the handler
\* of that descriptor; none is installed when no descriptor matches.  An
\* abnormal termination of the selected test writes the failure message
\* followed by the Sentinel; an abnormal termination of the dispatcher before
\* the selection writes no Sentinel.
C18_HandlerAfterMatch ==
    /\ g_hook = g_found
    /\ g_pc \in {"idle", "start", "read_name", "read_file", "find"} => g_hook = 0
    /\ g_hook # 0 =>
          /\ g_pc \in {"matched", "in_test", "panicked", "returned"}
          /\ StartsWith(g_out, ExpectedAvailability \o HandshakeOf(g_hook))
    /\ g_pc = "aborted" => g_hook = 0 /\ SentinelStarts = {}
    /\ g_pc = "panicked" =>
          /\ g_hook # 0
          /\ EndsInPanicReport(Drop(g_out, Len(ExpectedAvailability \o HandshakeOf(g_hook))),
                               g_tests[g_hook])

\* The dispatcher terminated abnormally after it had written the
\* availability line and read a request that names a test of the registry:
\* no handler was in place, the tape holds the availability line only.
C18_Witness ==
    /\ g_pc = "aborted"
    /\ g_out = ExpectedAvailability
    /\ g_pos = Len(g_tape)
    /\ g_hook = 0
    /\ Find(g_tests, Trim(g_name), g_file) # 0


----------------------------------------------------------------------------
(* Further claims about the supervisor.                                    *)

\* The matched child wrote a complete Sentinel and has then exited by itself.
SentinelWrittenThenExited ==
    /\ pc \in {"poll_recv", "poll_wait"}
    /\ child[idx] \in {"exited_ok", "exited_fail"}
    /\ Contains(childOut, MAGIC_TERMINATOR)

\* C19 as stated: for a matched test with should_panic = No whose guest wrote
\* the complete Sentinel before its process exited, the supervising call never
\* returns a pass, under any interleaving of the reader thread, the exit and
\* the poll loop.
C19_Step ==
    (test.should_panic.kind = "No" /\ SentinelWrittenThenExited)
    => innerRet'[idx] # OkTrue

C19_Original == [][C19_Step]_vars


\* Bound: the bytes a child that writes without end writes per tick.
RatePerTick == 1

\* Initial states for the question whether the supervising call returns:
\* at least one candidate; children that write a bounded output, and children
\* that write without end.
InitLive ==
    /\ HostIdle
    /\ GuestIdle
    /\ CodecIdle
    /\ RunnerIdle
    /\ SearchIdle
    /\ test \in {[name |-> <<"t">>, should_panic |-> sp] :
                    sp \in {SP_No, SP_Yes, SP_YesWithMessage(<<"a">>)}}
    /\ test_paths \in {[i \in 1..n |-> i] : n \in 1..MaxCandidates}
    /\ host_test_time \in HostTimes
    /\ endless \in BOOLEAN
    /\ endless => Len(test_paths) = 1 /\ host_test_time = 0
    /\ tailBudget = IF endless THEN RatePerTick ELSE 0
    /\ pc = "call"
    /\ idx = 0
    /\ child = [i \in Candidates |-> "unspawned"]
    /\ childPlan = <<>>
    /\ tailLeft = 0
    /\ childOut = <<>>
    /\ readPos = 0
    /\ reader = [i \in Candidates |-> "none"]
    /\ chan = <<>>
    /\ stdout_buffer = <<>>
    /\ lines_seen = 0
    /\ searched_cursor = 0
    /\ elapsed = 0
    /\ timeout = 0
    /\ sinceMatch = 0
    /\ innerRet = [i \in Candidates |-> "none"]
    /\ exitPath = [i \in Candidates |-> "none"]
    /\ spawned = <<>>
    /\ result = "none"

\* The steps of the supervising thread.
SupervisorStep ==
    \/ RunTestOnValida
    \/ SpawnChild
    \/ CheckStartedRecv
    \/ CheckStartedEnd
    \/ PollReceiveSearch
    \/ PollTryWaitErr
    \/ PollTryWait

\* The supervising thread keeps running and time keeps passing; nothing is
\* assumed of the child and of the reader thread.
SpecLive == InitLive /\ [][Next]_vars /\ WF_vars(SupervisorStep) /\ WF_vars(Tick)

\* Past the deadline of its phase the supervisor does nothing but leave it.
C20_DeadlineStep ==
    /\ (pc = "handshake" /\ elapsed >= HANDSHAKE_SECS /\ stdout_buffer' # stdout_buffer)
          => pc' # "handshake"
    /\ (pc = "poll_wait" /\ elapsed >= timeout /\ pc' # pc)
          => innerRet'[idx] # "none"

----------------------------------------------------------------------------
\* The Sentinel search of the poll loop of run_test_on_valida_inner, on its
\* own: the buffer grows by what receive_child_stdout takes from the channel
\* and every comparison of the search is recorded.

\* Bounds: the length of the buffer and of what one receive_child_stdout adds.
MaxBufLen == 6
MaxSegLen == 3

SearchBytes == {NL, "T", "x"}

\* What one call of receive_child_stdout appends: nothing, or some bytes.
SearchSegments ==
    UNION {[1..n -> SearchBytes] : n \in 0..MaxSegLen}

\* The start indices at which (cursor..search_end).any(..) compares a slice:
\* any stops at the first index that matches.
ComparedBy(buf, cursor, search_end) ==
    LET range == cursor..(search_end - 1)
        hits == {i \in range : MatchAt(buf, i, MAGIC_TERMINATOR)}
    IN IF hits = {} THEN range
       ELSE {i \in range : \A h \in hits : i <= h}

\* The buffer as check_test_started leaves it, here shorter than the
\* Sentinel ("x" stands for the handshake text); searched_cursor = 0.
InitSearch ==
    /\ HostIdle
    /\ SupervisorIdle
    /\ GuestIdle
    /\ CodecIdle
    /\ RunnerIdle
    /\ s_buffer = <<"x">>
    /\ s_cursor = 0
    /\ s_compared = [i \in 0..MaxBufLen |-> 0]
    /\ s_overrun = FALSE
    /\ s_pc = "poll"

\* One iteration of the loop up to the return on a found Sentinel:
\* receive_child_stdout, search_end, the search, searched_cursor = search_end.
SearchPoll ==
    /\ s_pc = "poll"
    /\ \E seg \in SearchSegments :
          /\ Len(s_buffer) + Len(seg) <= MaxBufLen
          /\ LET buf == s_buffer \o seg
                 search_end == SearchEnd(Len(buf), s_cursor)
                 cmp == ComparedBy(buf, s_cursor, search_end)
             IN /\ s_buffer' = buf
                /\ s_cursor' = search_end
                /\ s_compared' = [i \in DOMAIN s_compared |->
                                     IF i \in cmp THEN s_compared[i] + 1
                                                  ELSE s_compared[i]]
                /\ s_overrun' = (s_overrun \/
                                 \E i \in cmp : i + Len(MAGIC_TERMINATOR) > Len(buf))
                /\ s_pc' = IF PanicedWithMagicTerminator(buf, s_cursor, search_end)
                           THEN "returned" ELSE "poll"
    /\ UNCHANGED notSearch

NextSearch == SearchPoll

SpecSearch == InitSearch /\ [][NextSearch]_vars

\* While the loop runs: the cursor is within the buffer, every start index
\* below it has been compared, once, and no other; no comparison read past
\* the end of the buffer.
C21_State ==
    /\ s_overrun = FALSE
    /\ \A i \in DOMAIN s_compared : s_compared[i] <= 1
    /\ s_pc = "poll" =>
          /\ s_cursor \in 0..Len(s_buffer)
          /\ \A i \in DOMAIN s_compared : s_compared[i] = IF i < s_cursor THEN 1 ELSE 0

\* One poll: the cursor does not decrease; the start indices compared are in
\* [cursor, length - marker length); the cursor becomes that bound, and stays
\* where it is while the buffer is shorter than the marker.
C21_Step ==
    s_pc = "poll" =>
        /\ s_cursor' >= s_cursor
        /\ s_cursor' <= Len(s_buffer')
        /\ \A i \in DOMAIN s_compared :
              s_compared'[i] # s_compared[i] =>
                  /\ s_cursor <= i
                  /\ i < Len(s_buffer') - Len(MAGIC_TERMINATOR)
        /\ s_cursor' = IF Len(s_buffer') >= Len(MAGIC_TERMINATOR)
                       THEN Len(s_buffer') - Len(MAGIC_TERMINATOR)
                       ELSE s_cursor

\* C21: in the poll loop the searched-up-to cursor never decreases and never
\* exceeds the buffer length; each poll compares only start indices in
\* [cursor, length - marker length) and then sets the cursor to that bound:
\* no start index is compared twice, every start index below the cursor has
\* been compared, and no comparison reads past the end of the buffer, also
\* while the buffer is shorter than the marker.
C21_Cursor == []C21_State /\ [][C21_Step]_vars

\* The loop went through a poll with a buffer shorter than the marker and
\* through polls that moved the cursor.
C21_Witness ==
    /\ s_pc = "poll"
    /\ s_cursor = 3
    /\ Len(s_buffer) = Len(MAGIC_TERMINATOR) + 3
    /\ s_compared[2] = 1
    /\ s_buffer[2] = NL


----------------------------------------------------------------------------
(* Claims about the loop of host_runner over the filtered tests.            *)

\* The filtered tests in registry order, computed from the registry alone.
FilteredSeq == SelectSeq(Indices, LAMBDA k : k \in FilteredSet)

CountIn(s, P(_)) == Cardinality({i \in 1..Len(s) : P(s[i])})

\* How many filtered tests the loop has begun, and how many it is done with.
TestsBegun ==
    IF r_pc \in {"guest", "panicked"} /\ r_i >= 1 THEN r_i
    ELSE IF r_pc \in {"loop", "exited"} THEN r_i - 1 ELSE 0
TestsDone == IF r_pc \in {"loop", "guest", "panicked", "exited"} /\ r_i >= 1 THEN r_i - 1 ELSE 0

HostFailed(k) == ~r_tests[k].ignore /\ r_tests[k].host \in {"Failed", "ShouldPanicButPassed"}
GuestFailed(k) ==
    /\ ~r_tests[k].ignore
    /\ r_tests[k].host = "Passed"
    /\ r_tests[k].guest = "Err"
    /\ SettingEnables

\* What ended the run without an exit code.
AbortCause ==
    IF r_pc # "panicked" THEN "none"
    ELSE IF r_i = 0 THEN "build"
    ELSE IF r_tests[filtered_tests[r_i]].host = "capture_panic" THEN "host_capture"
    ELSE r_tests[filtered_tests[r_i]].guest

\* The tests are gone through one by one in registry order, each once; the
\* failures of the tests that are done are counted, and the run went on.
C22_InOrder ==
    /\ r_pc \in {"loop", "guest", "exited"} => filtered_tests = FilteredSeq
    /\ r_hostRuns = SelectSeq(Take(FilteredSeq, TestsBegun), LAMBDA k : ~r_tests[k].ignore)
    /\ failed = CountIn(Take(FilteredSeq, TestsBegun), HostFailed)
    /\ valida_failed = CountIn(Take(FilteredSeq, TestsDone), GuestFailed)
    /\ r_pc = "exited" =>
          /\ TestsDone = Len(FilteredSeq)
          /\ r_hostRuns = ToRunOnHost

\* A test that fails, on the host or on the guest, ends only itself: the
\* failure is counted and the loop is at the next test.
C22_Step ==
    /\ r_i' \in {r_i, r_i + 1}
    /\ (InLoop /\ HostFailed(filtered_tests[r_i])) =>
          /\ failed' = failed + 1
          /\ r_pc' = "loop"
          /\ r_i' = r_i + 1
    /\ (r_pc = "guest" /\ CurrentTest.guest = "Err") =>
          /\ valida_failed' = valida_failed + 1
          /\ r_pc' = "loop"
          /\ r_i' = r_i + 1

----------------------------------------------------------------------------
(* Claims about the reader thread of non_blocking_read.                     *)

\* The steps of a reader thread that return from its read without an error.
ReaderStep ==
    \/ ReaderRead
    \/ ReaderEof
    \/ OrphanReaderStop

\* The supervising thread and the reader threads keep running and time keeps
\* passing; nothing is assumed of the child, and no read is assumed to fail.
SpecReader ==
    /\ InitLive
    /\ [][Next]_vars
    /\ WF_vars(SupervisorStep)
    /\ WF_vars(Tick)
    /\ WF_vars(ReaderStep)

\* What a reader thread puts on the channel is segments of bytes the child
\* wrote, none of them empty; a thread that has stopped stays stopped.
C23_Silent ==
    /\ \A k \in 1..Len(chan) : chan[k] # <<>>
    /\ Flatten(chan) = SubSeq(childOut, readPos - Len(Flatten(chan)) + 1, readPos)

\* The end of a reader thread changes nothing the consumer holds: not the
\* channel's content, not the buffer, not what the supervising call returns.
C23_Step ==
    \A j \in Candidates :
        /\ reader[j] = "done" => reader'[j] = "done"
        /\ (reader[j] = "running" /\ reader'[j] = "done") =>
              UNCHANGED <<chan, stdout_buffer, innerRet, exitPath, result, pc>>

\* C23: the reader thread stops at end-of-stream, at a read error or when
\* the receiver is gone, and reports no error to the consumer; after the
\* supervising call has returned (receiver dropped, child killed), the
\* reader thread terminates: no reader thread runs forever.
C23_ReaderStops ==
    /\ []C23_Silent
    /\ [][C23_Step]_vars
    /\ \A j \in Candidates : (reader[j] = "running") ~> (reader[j] = "done")

\* The reader thread of a call that returned by the timeout, its child never
\* having exited, has stopped.
C23_Witness ==
    /\ pc = "done"
    /\ exitPath[1] = "timeout"
    /\ child[1] = "killed"
    /\ reader[1] = "done"
    /\ innerRet[1] # "none"


----------------------------------------------------------------------------
(* Claims about which tests host_runner sends to the guest.                 *)

\* Every test sent to the guest passed on the host, with the guest enabled;
\* every guest run that returned is counted once; at the exit the tests sent
\* are all those that passed on the host, or none.
C24_State ==
    /\ \A k \in Range(r_guestRuns) :
          /\ SettingEnables
          /\ ~r_tests[k].ignore
          /\ r_tests[k].host = "Passed"
          /\ k \in Range(r_hostRuns)
    /\ r_pc \in {"loop", "exited"} => valida_passed + valida_failed = Len(r_guestRuns)
    /\ r_pc = "exited" =>
          /\ r_guestRuns = IF SettingEnables THEN ToRunOnGuest ELSE <<>>
          /\ Len(ToRunOnGuest) = passed
          /\ valida_passed + valida_failed = IF SettingEnables THEN passed ELSE 0

\* The host run of a test is followed by its guest run exactly when the guest
\* is enabled and the host run returned Passed; an ignored test is followed
\* by the next test.
C24_Step ==
    InLoop =>
        /\ r_pc' = "guest" <=>
              /\ SettingEnables
              /\ ~CurrentTest.ignore
              /\ CurrentTest.host = "Passed"
        /\ r_pc' = "guest" => r_i' = r_i
        /\ r_guestRuns' = r_guestRuns

\* C24: the guest run of a test is attempted if and only if guest execution
\* is enabled and the host run of that test returned Passed; tests that
\* failed, were ignored or were unsupported on the host are never sent to the
\* guest; at the end of a run guest passed + guest failed equals passed when
\* guest execution is enabled and 0 when it is disabled.
C24_GuestOnlyAfterPass == []C24_State /\ [][C24_Step]_vars

\* A run with the guest enabled ended: two tests passed on the host and went
\* to the guest, where one failed; the test that failed on the host and the
\* ignored one were not sent.
C24_Witness ==
    /\ r_pc = "exited"
    /\ SettingEnables
    /\ Len(r_tests) = 3
    /\ passed = 2
    /\ valida_passed = 1
    /\ valida_failed = 1
    /\ failed + ignored + unsupported = 1
    /\ Len(r_guestRuns) = 2


----------------------------------------------------------------------------
(* Claims about the bytes the supervisor holds.                             *)

\* The buffer followed by what is in the channel is what the reader thread
\* has read, which is the first readPos bytes the child wrote.
C25_State ==
    InCall =>
        /\ readPos <= Len(childOut)
        /\ stdout_buffer \o Flatten(chan) = Take(childOut, readPos)
        /\ Len(stdout_buffer) <= Len(childOut)
        /\ stdout_buffer = Take(childOut, Len(stdout_buffer))

\* Within a call the buffer is only extended; the buffer check_test_started
\* filled is the one the poll loop starts with, searched from index 0.
C25_Step ==
    /\ (InCall /\ InCall') =>
          /\ Len(stdout_buffer') >= Len(stdout_buffer)
          /\ Take(stdout_buffer', Len(stdout_buffer)) = stdout_buffer
    /\ (pc = "handshake" /\ pc' = "poll_recv") =>
          /\ stdout_buffer' = stdout_buffer
          /\ searched_cursor' = 0

\* C25: at every point of run_test_on_valida_inner the stdout buffer is a
\* prefix of the bytes the child wrote: chunks are appended in the order the
\* reader thread read them, no byte is dropped, duplicated or reordered, and
\* the bytes received during the handshake remain in the buffer and are
\* covered by the Sentinel search, which starts at index 0.
C25_BufferIsPrefix == []C25_State /\ [][C25_Step]_vars

\* In the poll loop the buffer holds the handshake lines and the bytes the
\* child wrote after them, all the child wrote, and the search has advanced.
C25_Witness ==
    /\ pc = "poll_wait"
    /\ Len(stdout_buffer) >= Len(PlanMatch(test)) + 2
    /\ stdout_buffer = childOut
    /\ Take(stdout_buffer, Len(PlanMatch(test))) = PlanMatch(test)
    /\ searched_cursor > 0


----------------------------------------------------------------------------
(* Claims about the guest-runner processes that are alive.                  *)

AliveChildren == {i \in Candidates : child[i] = "alive"}

\* At most one child is alive, that of the candidate whose supervising call
\* is running; between two calls and after run_test_on_valida has returned
\* none is.
C26_State ==
    /\ Cardinality(AliveChildren) <= 1
    /\ \A i \in AliveChildren : i = idx /\ InCall
    /\ pc \in {"call", "spawn", "done"} => AliveChildren = {}

\* A child is spawned only when no child is alive, and the return of
\* run_test_on_valida to host_runner leaves none alive.
C26_Step ==
    /\ (\E i \in Candidates : child[i] # "alive" /\ child'[i] = "alive") =>
          /\ AliveChildren = {}
          /\ \A j \in 1..Len(spawned) : child[spawned[j]] \in {"killed", "exited_ok", "exited_fail"}
    /\ (pc # "done" /\ pc' = "done") =>
          \A i \in Candidates : child'[i] # "alive"

\* C26: at any moment of a run at most one guest-runner child spawned by the
\* harness is alive: a candidate's child is killed before the next candidate
\* is spawned, and the child of one test is killed before run_test_on_valida
\* returns, hence before the host run of the next test starts.
C26_OneChildAlive == []C26_State /\ [][C26_Step]_vars

\* The second candidate's child runs; the first candidate's child was killed
\* when its handshake did not match.
C26_Witness ==
    /\ spawned = <<1, 2>>
    /\ exitPath[1] = "mismatch"
    /\ child[1] = "killed"
    /\ child[2] = "alive"
    /\ InCall

====
